---- MODULE Spec2Model ----
(***************************************************************************)
(* A model of the goggles ECS core: the generational entity allocator      *)
(* (src/src/entity.rs), the raw and masked component storages              *)
(* (src/src/storage.rs, src/src/masked.rs, src/src/tracked.rs) and the     *)
(* entity-keyed component access of the world (src/src/local_world.rs).    *)
(***************************************************************************)
EXTENDS Integers, Sequences, FiniteSets, TLC

VARIABLES
    allocator,   \* the Allocator under test (entity.rs:53-62)
    last,        \* the last top-level call: its name, entity, result and out vector
    issued,      \* history: how often each entity was returned by an allocation
    pending,     \* history: per entity, the kill_atomic calls that returned Ok since
                 \* the last merge (0, 1, or 2 for more), 0 again after a kill
    reaped,      \* history: pending as it was when the call in last, a merge, began
    freed,       \* history: freed indices not yet reused, oldest first
    lastGen,     \* history: generation of the last entity issued at each index
    phase,       \* batch comparison: "idle", "batch" or "merged"
    serial,      \* batch comparison: allocator driven by the exclusive calls
    deferred,    \* batch comparison: allocator with the kills held back
    held,        \* batch comparison: entities whose kill is held back
    corr,        \* batch comparison: entity of the atomic run -> entity of the serial run
    world,       \* the component storage of a World next to its allocator
    store,       \* a MaskedStorage over one of the raw storages
    abstract,    \* history: the index -> value map the store should hold
    slast,       \* the last call on the store
    dropped,     \* the run of Drop on a masked storage
    join,        \* the sources of a join and the run of its iterator
    rw,          \* RwResources values and the last call on them
    sys          \* systems, their composition and its check or run

vars == <<allocator, last, issued, pending,
          reaped, freed, lastGen, phase, serial, deferred, held, corr,
          world, store, abstract, slast, dropped, join, rw, sys>>

allocVars == <<allocator, last, issued, pending,
               reaped, freed, lastGen>>
batchVars == <<phase, serial, deferred, held, corr>>
worldVars == <<world>>
storeVars == <<store, abstract, slast>>
dropVars == <<dropped>>
joinVars == <<join>>
rwVars == <<rw>>
sysVars == <<sys>>
laterVars == <<dropVars, joinVars, rwVars, sysVars>>

----------------------------------------------------------------------------
(* Bounds *)

MaxIndex == 2        \* index_len never grows beyond this
MaxGen == 3          \* no generation is raised beyond this

Indexes == 0 .. (MaxIndex - 1)
Gens == 1 .. MaxGen
Entities == [index : Indexes, generation : Gens]

----------------------------------------------------------------------------
(* Option<T>: None is the empty sequence, Some(x) the one-element sequence *)

None == << >>
Some(x) == << x >>
IsSome(o) == Len(o) = 1
Unwrap(o) == o[1]

Last(s) == s[Len(s)]
Front(s) == SubSeq(s, 1, Len(s) - 1)
Range(s) == { s[k] : k \in 1 .. Len(s) }

\* Iteration order of a hibitset bit iterator: ascending index.
RECURSIVE BitIter(_)
BitIter(S) ==
    IF S = {} THEN << >>
    ELSE LET m == CHOOSE x \in S : \A y \in S : x <= y
         IN  << m >> \o BitIter(S \ {m})

----------------------------------------------------------------------------
(* Generation (entity.rs:300-369) *)

Generation_zero == 0

Generation_is_alive(g) == g > 0

Generation_to_alive(g) == IF g > 0 THEN Some(g) ELSE None

Generation_killed_Keeps(g) == g

Generation_killed(g) == IF Generation_is_alive(g) THEN 0 - g ELSE g

Generation_raised_NoBump(g) == IF g > 0 THEN g ELSE IF g = 0 THEN 1 ELSE 0 - g

Generation_raised(g) == IF g > 0 THEN g ELSE 1 - g

AliveGeneration_generation(g) == g

Entity_new(index, generation) == [index |-> index, generation |-> generation]

----------------------------------------------------------------------------
(* EntityCache (entity.rs:259-292) and the atomic counters (entity.rs:371-397) *)

EntityCache_default == [cache |-> << >>, len |-> 0]

atomic_increment_Next(i, limit) ==
    IF i # limit THEN [ret |-> Some(i + 1), val |-> i + 1]
    ELSE [ret |-> None, val |-> i]

\* None at the limit, else the previous value and the incremented counter.
atomic_increment(i, limit) ==
    IF i # limit THEN [ret |-> Some(i), val |-> i + 1]
    ELSE [ret |-> None, val |-> i]

atomic_decrement(i) ==
    IF i # 0 THEN [ret |-> Some(i), val |-> i - 1]
    ELSE [ret |-> None, val |-> i]

\* maintain that leaves the vector longer than its length.
EntityCache_maintain_Keeps(c) == c

EntityCache_maintain(c) == [c EXCEPT !.cache = SubSeq(c.cache, 1, c.len)]

\* extend that appends without cutting the vector to its length first.
EntityCache_extend_Stale(c, iter) ==
    [cache |-> c.cache \o iter, len |-> Len(c.cache \o iter)]

EntityCache_extend(c, iter) ==
    LET m == EntityCache_maintain(c)
        v == m.cache \o iter
    IN  [cache |-> v, len |-> Len(v)]

\* push that appends without cutting the vector to its length first.
EntityCache_push_Stale(c, index) ==
    [cache |-> Append(c.cache, index), len |-> Len(c.cache) + 1]

EntityCache_push(c, index) == EntityCache_extend(c, << index >>)

EntityCache_pop_Oldest(c) ==
    LET m == EntityCache_maintain(c)
    IN  IF Len(m.cache) = 0
        THEN [ret |-> None, c |-> [cache |-> m.cache, len |-> 0]]
        ELSE [ret |-> Some(Head(m.cache)),
              c   |-> [cache |-> Tail(m.cache), len |-> Len(m.cache) - 1]]

EntityCache_pop(c) ==
    LET m == EntityCache_maintain(c)
    IN  IF Len(m.cache) = 0
        THEN [ret |-> None, c |-> [cache |-> m.cache, len |-> 0]]
        ELSE [ret |-> Some(Last(m.cache)),
              c   |-> [cache |-> Front(m.cache), len |-> Len(m.cache) - 1]]

EntityCache_pop_atomic_Bottom(c) ==
    LET d == atomic_decrement(c.len)
    IN  IF IsSome(d.ret)
        THEN [ret |-> Some(c.cache[1]), c |-> [c EXCEPT !.len = d.val]]
        ELSE [ret |-> None, c |-> c]

EntityCache_pop_atomic(c) ==
    LET d == atomic_decrement(c.len)
    IN  IF IsSome(d.ret)
        THEN [ret |-> Some(c.cache[(Unwrap(d.ret) - 1) + 1]),
              c   |-> [c EXCEPT !.len = d.val]]
        ELSE [ret |-> None, c |-> c]

----------------------------------------------------------------------------
(* Allocator (entity.rs:52-243) *)

Allocator_new ==
    [generations   |-> << >>,
     alive         |-> {},
     raised_atomic |-> {},
     killed_atomic |-> {},
     cache         |-> EntityCache_default,
     index_len     |-> 0]

Allocator_generation(a, index) ==
    IF index + 1 <= Len(a.generations) THEN a.generations[index + 1]
    ELSE Generation_zero

Allocator_entity(a, index) ==
    LET generation == Allocator_generation(a, index)
    IN  IF IsSome(Generation_to_alive(generation))
        THEN Some(Entity_new(index, Unwrap(Generation_to_alive(generation))))
        ELSE IF index \in a.raised_atomic
        THEN Some(Entity_new(index, Generation_raised(generation)))
        ELSE None

\* is_alive that takes every generation of an allocated index.
Allocator_is_alive_AnyGeneration(a, e) == e.index < a.index_len

Allocator_is_alive(a, e) == Allocator_entity(a, e.index) = Some(e)

Allocator_live_bitset(a) == a.alive \cup a.raised_atomic

Allocator_max_entity_count(a) == a.index_len

update_generation_length(a) ==
    IF Len(a.generations) < a.index_len
    THEN [a EXCEPT !.generations =
             a.generations \o [k \in 1 .. (a.index_len - Len(a.generations)) |-> 0]]
    ELSE a

\* kill that leaves the bit of killed_atomic as it is.
Allocator_kill_KeepsPending(a, entity) ==
    IF ~Allocator_is_alive(a, entity)
    THEN [ok |-> FALSE, a |-> a]
    ELSE
      LET a1 == [a EXCEPT !.alive = @ \ {entity.index}]
          wasRaised == entity.index \in a1.raised_atomic
          a2 == [a1 EXCEPT !.raised_atomic = @ \ {entity.index}]
          a3 == IF wasRaised
                THEN LET u == update_generation_length(a2)
                         generation == u.generations[entity.index + 1]
                     IN  [u EXCEPT !.generations[entity.index + 1] =
                            Generation_killed(AliveGeneration_generation(
                                Generation_raised(generation)))]
                ELSE [a2 EXCEPT !.generations[entity.index + 1] =
                            Generation_killed(@)]
      IN  [ok |-> TRUE,
           a  |-> [a3 EXCEPT !.cache = EntityCache_push(@, entity.index)]]

Allocator_kill(a, entity) ==
    IF ~Allocator_is_alive(a, entity)
    THEN [ok |-> FALSE, a |-> a]
    ELSE
      LET a1 == [a EXCEPT !.alive = @ \ {entity.index},
                          !.killed_atomic = @ \ {entity.index}]
          wasRaised == entity.index \in a1.raised_atomic
          a2 == [a1 EXCEPT !.raised_atomic = @ \ {entity.index}]
          a3 == IF wasRaised
                THEN LET u == update_generation_length(a2)
                         generation == u.generations[entity.index + 1]
                     IN  [u EXCEPT !.generations[entity.index + 1] =
                            Generation_killed(AliveGeneration_generation(
                                Generation_raised(generation)))]
                ELSE [a2 EXCEPT !.generations[entity.index + 1] =
                            Generation_killed(@)]
      IN  [ok |-> TRUE,
           a  |-> [a3 EXCEPT !.cache = EntityCache_push(@, entity.index)]]

Allocator_kill_atomic_Eager(a, e) == Allocator_kill(a, e)

Allocator_kill_atomic(a, e) ==
    IF ~Allocator_is_alive(a, e)
    THEN [ok |-> FALSE, a |-> a]
    ELSE [ok |-> TRUE, a |-> [a EXCEPT !.killed_atomic = @ \cup {e.index}]]

\* limit stands for MAX_INDEX: allocation of a fresh index fails there.
Allocator_allocate(a, limit) ==
    LET p == EntityCache_pop(a.cache)
        a1 == [a EXCEPT !.cache = p.c]
        fresh == ~IsSome(p.ret)
        index == IF fresh THEN a1.index_len ELSE Unwrap(p.ret)
        a2 == IF fresh
              THEN update_generation_length([a1 EXCEPT !.index_len = index + 1])
              ELSE a1
        a3 == [a2 EXCEPT !.alive = @ \cup {index}]
        raised == Generation_raised(a3.generations[index + 1])
    IN  [panic |-> fresh /\ a1.index_len = limit,
         e |-> Entity_new(index, raised),
         a |-> [a3 EXCEPT !.generations[index + 1] =
                              AliveGeneration_generation(raised)]]

Allocator_allocate_atomic(a, limit) ==
    LET p == EntityCache_pop_atomic(a.cache)
        a1 == [a EXCEPT !.cache = p.c]
        inc == atomic_increment(a1.index_len, limit)
        fresh == ~IsSome(p.ret)
        index == IF ~fresh THEN Unwrap(p.ret)
                 ELSE IF IsSome(inc.ret) THEN Unwrap(inc.ret) ELSE a1.index_len
        a2 == IF fresh THEN [a1 EXCEPT !.index_len = inc.val] ELSE a1
        a3 == [a2 EXCEPT !.raised_atomic = @ \cup {index}]
    IN  [panic |-> fresh /\ ~IsSome(inc.ret),
         e |-> Entity_new(index, Generation_raised(Allocator_generation(a3, index))),
         a |-> a3]

RECURSIVE MergeRaised_NoAlive(_, _)
MergeRaised_NoAlive(a, iter) ==
    IF iter = << >> THEN a
    ELSE LET index == Head(iter)
             a1 == [a EXCEPT !.generations[index + 1] =
                        AliveGeneration_generation(Generation_raised(@))]
         IN  MergeRaised_NoAlive(a1, Tail(iter))

\* The first loop of merge_atomic, over the indices of raised_atomic.
RECURSIVE MergeRaised(_, _)
MergeRaised(a, iter) ==
    IF iter = << >> THEN a
    ELSE LET index == Head(iter)
             a1 == [a EXCEPT !.generations[index + 1] =
                        AliveGeneration_generation(Generation_raised(@)),
                             !.alive = @ \cup {index}]
         IN  MergeRaised(a1, Tail(iter))

\* The second loop of merge_atomic, over the indices of killed_atomic;
\* st is [a, killed, panic], panic being a failed unwrap of to_alive().
RECURSIVE MergeKilled(_, _)
MergeKilled(st, iter) ==
    IF iter = << >> THEN st
    ELSE LET index == Head(iter)
             generation == st.a.generations[index + 1]
             alive == Generation_to_alive(generation)
         IN  IF ~IsSome(alive)
             THEN [st EXCEPT !.panic = TRUE]
             ELSE MergeKilled(
                    [a |-> [st.a EXCEPT !.alive = @ \ {index},
                                        !.generations[index + 1] =
                                            Generation_killed(generation)],
                     killed |-> Append(st.killed, Entity_new(index, Unwrap(alive))),
                     panic |-> FALSE],
                    Tail(iter))

VecClear_Keeps(v) == v

VecClear(v) == << >>

\* merge_atomic with the two loops in the other order: the kills first.
Allocator_merge_atomic_KillsFirst(a, out) ==
    LET cleared == VecClear(out)
        a1 == update_generation_length(a)
        st == MergeKilled([a |-> a1, killed |-> cleared, panic |-> FALSE],
                          BitIter(a1.killed_atomic))
        a2 == [st.a EXCEPT !.killed_atomic = {}]
        a3 == MergeRaised(a2, BitIter(a2.raised_atomic))
        a4 == [a3 EXCEPT !.raised_atomic = {}]
    IN  [panic |-> st.panic,
         killed |-> st.killed,
         a |-> [a4 EXCEPT !.cache =
                   EntityCache_extend(@, [k \in 1 .. Len(st.killed) |->
                                              st.killed[k].index])]]

Allocator_merge_atomic(a, out) ==
    LET cleared == VecClear(out)
        a1 == update_generation_length(a)
        a2 == MergeRaised(a1, BitIter(a1.raised_atomic))
        a3 == [a2 EXCEPT !.raised_atomic = {}]
        st == MergeKilled([a |-> a3, killed |-> cleared, panic |-> FALSE],
                          BitIter(a3.killed_atomic))
        a4 == [st.a EXCEPT !.killed_atomic = {}]
    IN  [panic |-> st.panic,
         killed |-> st.killed,
         a |-> [a4 EXCEPT !.cache =
                   EntityCache_extend(@, [k \in 1 .. Len(st.killed) |->
                                              st.killed[k].index])]]

----------------------------------------------------------------------------
(* Raw storages (storage.rs) and the Flagged wrapper (tracked.rs).          *)
(* A slot of MaybeUninit memory is None while it holds no initialised       *)
(* value.  The unsafe calls are undefined outside their contract (a get or  *)
(* remove of an empty slot): there the result is any value, or the panic of *)
(* the failed unwrap, so get and remove return the set of possible results. *)

Values == {"a", "b"}

Panicked == "panic"

Undefined == Values \cup {Panicked}

FunSet(f, k, v) == [x \in (DOMAIN f) \cup {k} |-> IF x = k THEN v ELSE f[x]]

FunDel(f, k) == [x \in (DOMAIN f) \ {k} |-> f[x]]

\* Vec::set_len after reserve: the new slots are uninitialised.
SetLen(v, len) == v \o [k \in 1 .. (len - Len(v)) |-> None]

\* Vec::remove in the place of swap_remove: the elements behind move up.
SwapRemove_Shift(v, k) ==
    SubSeq(v, 1, k) \o SubSeq(v, k + 2, Len(v))

\* Vec::swap_remove: the last element takes the place of the removed one.
SwapRemove(v, k) ==
    IF k = Len(v) - 1 THEN Front(v)
    ELSE [Front(v) EXCEPT ![k + 1] = Last(v)]

VecStorage_default == [kind |-> "Vec", cells |-> << >>]

VecStorage_occupied(s, index) ==
    index < Len(s.cells) /\ IsSome(s.cells[index + 1])

VecStorage_get(s, index) ==
    IF VecStorage_occupied(s, index) THEN {Unwrap(s.cells[index + 1])}
    ELSE Undefined

VecStorage_set(s, index, c) ==
    IF index < Len(s.cells) THEN [s EXCEPT !.cells[index + 1] = Some(c)] ELSE s

VecStorage_insert(s, index, c) ==
    LET grown == IF Len(s.cells) <= index THEN SetLen(s.cells, index + 1)
                 ELSE s.cells
    IN  [s EXCEPT !.cells = [grown EXCEPT ![index + 1] = Some(c)]]

\* ptr::read moves the value out: the slot holds no value afterwards.
VecStorage_remove(s, index) ==
    [rets |-> VecStorage_get(s, index),
     s    |-> IF VecStorage_occupied(s, index)
              THEN [s EXCEPT !.cells[index + 1] = None] ELSE s]

DenseVecStorage_default ==
    [kind |-> "Dense", data |-> << >>, values |-> << >>, indexes |-> << >>]

DenseVecStorage_occupied(s, index) ==
    /\ index < Len(s.data)
    /\ IsSome(s.data[index + 1])
    /\ Unwrap(s.data[index + 1]) < Len(s.values)

DenseVecStorage_get(s, index) ==
    IF DenseVecStorage_occupied(s, index)
    THEN {s.values[Unwrap(s.data[index + 1]) + 1]}
    ELSE Undefined

DenseVecStorage_set(s, index, c) ==
    IF DenseVecStorage_occupied(s, index)
    THEN [s EXCEPT !.values[Unwrap(s.data[index + 1]) + 1] = c]
    ELSE s

DenseVecStorage_insert(s, index, c) ==
    LET grown == IF Len(s.data) <= index THEN SetLen(s.data, index + 1)
                 ELSE s.data
    IN  [s EXCEPT !.data = [grown EXCEPT ![index + 1] = Some(Len(s.values))],
                  !.indexes = Append(@, index),
                  !.values = Append(@, c)]

DenseVecStorage_remove_NoBackPointer(s, index) ==
    IF ~DenseVecStorage_occupied(s, index) \/ Len(s.indexes) # Len(s.values)
    THEN [rets |-> Undefined, s |-> s]
    ELSE LET dind == Unwrap(s.data[index + 1])
         IN  [rets |-> {s.values[dind + 1]},
              s    |-> [s EXCEPT !.indexes = SwapRemove(@, dind),
                                 !.values = SwapRemove(@, dind)]]

DenseVecStorage_remove(s, index) ==
    IF ~DenseVecStorage_occupied(s, index) \/ Len(s.indexes) # Len(s.values)
    THEN [rets |-> Undefined, s |-> s]
    ELSE LET dind == Unwrap(s.data[index + 1])
             last_index == s.indexes[Len(s.indexes)]
         IN  [rets |-> {s.values[dind + 1]},
              s    |-> [s EXCEPT !.data[last_index + 1] = Some(dind),
                                 !.indexes = SwapRemove(@, dind),
                                 !.values = SwapRemove(@, dind)]]

HashMapStorage_default == [kind |-> "HashMap", map |-> << >>]

HashMapStorage_get(s, index) ==
    IF index \in DOMAIN s.map THEN {s.map[index]} ELSE {Panicked}

HashMapStorage_set(s, index, c) ==
    IF index \in DOMAIN s.map THEN [s EXCEPT !.map = FunSet(@, index, c)] ELSE s

HashMapStorage_insert(s, index, v) == [s EXCEPT !.map = FunSet(@, index, v)]

HashMapStorage_remove(s, index) ==
    [rets |-> HashMapStorage_get(s, index),
     s    |-> [s EXCEPT !.map = FunDel(@, index)]]

Flagged_default(inner) ==
    [kind |-> "Flagged", tracking |-> FALSE, storage |-> inner, modified |-> {}]

\* RawStorage, dispatched on the storage type.  get_mut hands out a
\* mutable reference: RawStorage_get_mut is the call itself (the Flagged
\* wrapper marks the index), RawStorage_set a write through the reference.
RECURSIVE RawStorage_get(_, _)
RawStorage_get(s, index) ==
    CASE s.kind = "Vec" -> VecStorage_get(s, index)
      [] s.kind = "Dense" -> DenseVecStorage_get(s, index)
      [] s.kind = "HashMap" -> HashMapStorage_get(s, index)
      [] s.kind = "Flagged" -> RawStorage_get(s.storage, index)

RECURSIVE RawStorage_get_mut(_, _)
RawStorage_get_mut(s, index) ==
    CASE s.kind = "Flagged" ->
            [s EXCEPT !.modified = IF s.tracking THEN @ \cup {index} ELSE @,
                      !.storage = RawStorage_get_mut(@, index)]
      [] OTHER -> s

RECURSIVE RawStorage_set(_, _, _)
RawStorage_set(s, index, c) ==
    CASE s.kind = "Vec" -> VecStorage_set(s, index, c)
      [] s.kind = "Dense" -> DenseVecStorage_set(s, index, c)
      [] s.kind = "HashMap" -> HashMapStorage_set(s, index, c)
      [] s.kind = "Flagged" -> [s EXCEPT !.storage = RawStorage_set(@, index, c)]

RECURSIVE RawStorage_insert(_, _, _)
RawStorage_insert(s, index, c) ==
    CASE s.kind = "Vec" -> VecStorage_insert(s, index, c)
      [] s.kind = "Dense" -> DenseVecStorage_insert(s, index, c)
      [] s.kind = "HashMap" -> HashMapStorage_insert(s, index, c)
      [] s.kind = "Flagged" ->
            [s EXCEPT !.modified = IF s.tracking THEN @ \cup {index} ELSE @,
                      !.storage = RawStorage_insert(@, index, c)]

RECURSIVE RawStorage_remove(_, _)
RawStorage_remove(s, index) ==
    CASE s.kind = "Vec" -> VecStorage_remove(s, index)
      [] s.kind = "Dense" -> DenseVecStorage_remove(s, index)
      [] s.kind = "HashMap" -> HashMapStorage_remove(s, index)
      [] s.kind = "Flagged" ->
            LET r == RawStorage_remove(s.storage, index)
            IN  [rets |-> r.rets,
                 s    |-> [s EXCEPT !.modified =
                                       IF s.tracking THEN @ \cup {index} ELSE @,
                                    !.storage = r.s]]

TrackedStorage_set_track_modified(s, flag) == [s EXCEPT !.tracking = flag]

\* mark_modified that looks at the tracking flag.
TrackedStorage_mark_modified_IfTracking(s, index) ==
    [s EXCEPT !.modified = IF s.tracking THEN @ \cup {index} ELSE @]

TrackedStorage_mark_modified(s, index) == [s EXCEPT !.modified = @ \cup {index}]

TrackedStorage_clear_modified(s) == [s EXCEPT !.modified = {}]

----------------------------------------------------------------------------
(* MaskedStorage (masked.rs:13-114): each call gives the set of its         *)
(* possible results and the storage after it                                *)

MaskedStorage_default(raw) == [mask |-> {}, storage |-> raw]

MaskedStorage_contains(m, index) == index \in m.mask

MaskedStorage_get(m, index) ==
    IF index \in m.mask
    THEN { Some(v) : v \in RawStorage_get(m.storage, index) }
    ELSE { None }

MaskedStorage_get_mut(m, index) ==
    IF index \in m.mask
    THEN [rets |-> { Some(v) : v \in RawStorage_get(m.storage, index) },
          m    |-> [m EXCEPT !.storage = RawStorage_get_mut(@, index)]]
    ELSE [rets |-> { None }, m |-> m]

MaskedStorage_get_or_insert_with(m, index, f) ==
    LET m1 == IF index \notin m.mask
              THEN [mask    |-> m.mask \cup {index},
                    storage |-> RawStorage_insert(m.storage, index, f)]
              ELSE m
    IN  [rets |-> RawStorage_get(m1.storage, index),
         m    |-> [m1 EXCEPT !.storage = RawStorage_get_mut(@, index)]]

MaskedStorage_insert(m, index, v) ==
    IF index \in m.mask
    THEN [rets |-> { Some(old) : old \in RawStorage_get(m.storage, index) },
          m    |-> [m EXCEPT !.storage =
                        RawStorage_set(RawStorage_get_mut(@, index), index, v)]]
    ELSE [rets |-> { None },
          m    |-> [mask    |-> m.mask \cup {index},
                    storage |-> RawStorage_insert(m.storage, index, v)]]

MaskedStorage_remove(m, index) ==
    IF index \in m.mask
    THEN LET r == RawStorage_remove(m.storage, index)
         IN  [rets |-> { Some(v) : v \in r.rets },
              m    |-> [mask |-> m.mask \ {index}, storage |-> r.s]]
    ELSE [rets |-> { None }, m |-> m]

----------------------------------------------------------------------------
(* The allocator driven through its public calls, with the call history *)

\* u32::MAX of entity.rs:294, scaled down to a 3-bit index so that the
\* limit is a value the model can count to.
MAX_INDEX == 7

NoEntity == [index |-> 0 - 1, generation |-> 0]

\* A finished call: e is the entity returned or killed (none when the call
\* failed), out the vector merge_atomic filled (empty for the other calls).
Call(op, e, ok, out) == [op |-> op, e |-> e, ok |-> ok, out |-> out]

\* The index the next allocation takes: the top of the logical cache, or
\* the fresh index index_len.
NextIndex(a) ==
    IF a.cache.len = 0 THEN a.index_len ELSE a.cache.cache[a.cache.len]

\* The bounds of a model: no fresh index beyond maxIndex, no generation
\* beyond maxGen.
CanAllocate(a, maxIndex, maxGen) ==
    /\ a.cache.len = 0 => a.index_len < maxIndex
    /\ Generation_raised(Allocator_generation(a, NextIndex(a))) <= maxGen

NoneCounted == [e \in Entities |-> 0]

Counted(f) == { e \in Entities : f[e] > 0 }

Bump(f, e) == [f EXCEPT ![e] = IF @ < 2 THEN @ + 1 ELSE @]

Without(s, x) == SelectSeq(s, LAMBDA y : y # x)

\* What a caller may leave in the vector it hands to merge_atomic.
OutVectors == { << >>, << Entity_new(0, 1) >> }

InitAllocator ==
    /\ allocator = Allocator_new
    /\ last = Call("new", NoEntity, TRUE, << >>)
    /\ issued = NoneCounted
    /\ pending = NoneCounted
    /\ reaped = NoneCounted
    /\ freed = << >>
    /\ lastGen = [i \in Indexes |-> 0]

InitBatch ==
    /\ phase = "idle"
    /\ serial = Allocator_new
    /\ deferred = Allocator_new
    /\ held = {}
    /\ corr = [e \in Entities |-> e]

NoWorld ==
    /\ world = << >>

NoStore ==
    /\ store = << >>
    /\ abstract = << >>
    /\ slast = << >>

NoDrop ==
    /\ dropped = << >>

NoJoin ==
    /\ join = << >>

NoRw ==
    /\ rw = << >>

NoSys ==
    /\ sys = << >>

NoLater == NoDrop /\ NoJoin /\ NoRw /\ NoSys

Init == InitAllocator /\ InitBatch /\ NoWorld /\ NoStore /\ NoLater

Allocated(op, r) ==
    /\ ~r.panic
    /\ allocator' = r.a
    /\ last' = Call(op, r.e, TRUE, << >>)
    /\ issued' = Bump(issued, r.e)
    /\ freed' = Without(freed, r.e.index)
    /\ lastGen' = [lastGen EXCEPT ![r.e.index] = r.e.generation]
    /\ reaped' = NoneCounted
    /\ UNCHANGED pending

Allocate ==
    /\ CanAllocate(allocator, MaxIndex, MaxGen)
    /\ Allocated("allocate", Allocator_allocate(allocator, MAX_INDEX))
    /\ UNCHANGED <<batchVars, worldVars, storeVars, laterVars>>

AllocateAtomic ==
    /\ CanAllocate(allocator, MaxIndex, MaxGen)
    /\ Allocated("allocate_atomic", Allocator_allocate_atomic(allocator, MAX_INDEX))
    /\ UNCHANGED <<batchVars, worldVars, storeVars, laterVars>>

Kill ==
    \E e \in Entities :
        LET r == Allocator_kill(allocator, e)
        IN  /\ allocator' = r.a
            /\ last' = Call("kill", IF r.ok THEN e ELSE NoEntity, r.ok, << >>)
            /\ pending' = IF r.ok THEN [pending EXCEPT ![e] = 0] ELSE pending
            /\ freed' = IF r.ok THEN Append(freed, e.index) ELSE freed
            /\ reaped' = NoneCounted
            /\ UNCHANGED <<issued, lastGen>>
            /\ UNCHANGED <<batchVars, worldVars, storeVars, laterVars>>

KillAtomic ==
    \E e \in Entities :
        LET r == Allocator_kill_atomic(allocator, e)
        IN  /\ allocator' = r.a
            /\ last' = Call("kill_atomic", IF r.ok THEN e ELSE NoEntity, r.ok, << >>)
            /\ pending' = IF r.ok THEN Bump(pending, e) ELSE pending
            /\ reaped' = NoneCounted
            /\ UNCHANGED <<issued, freed, lastGen>>
            /\ UNCHANGED <<batchVars, worldVars, storeVars, laterVars>>

MergeAtomic ==
    \E out \in OutVectors :
        LET r == Allocator_merge_atomic(allocator, out)
        IN  /\ allocator' = r.a
            /\ last' = Call("merge_atomic", NoEntity, ~r.panic, r.killed)
            /\ reaped' = pending
            /\ pending' = NoneCounted
            /\ freed' = freed \o [k \in 1 .. Len(r.killed) |-> r.killed[k].index]
            /\ UNCHANGED <<issued, lastGen>>
            /\ UNCHANGED <<batchVars, worldVars, storeVars, laterVars>>

Next ==
    \/ Allocate
    \/ AllocateAtomic
    \/ Kill
    \/ KillAtomic
    \/ MergeAtomic

Spec == Init /\ [][Next]_vars

----------------------------------------------------------------------------
(* Properties of the allocator, checked under Spec *)

AllocOps == {"allocate", "allocate_atomic"}

\* C1: no two entities returned by allocate or allocate_atomic are equal:
\* no (index, generation) pair is returned by more than one allocation,
\* also when an index is reused after a kill.
C1_AllocationsUnique == \A e \in Entities : issued[e] <= 1

\* An allocation has just reused an index whose earlier entity was issued too.
C1_Witness ==
    /\ last.op \in AllocOps
    /\ last.e.generation = 2
    /\ issued[Entity_new(last.e.index, 1)] = 1
    /\ issued[last.e] = 1

\* C2: after kill(e) returns Ok(()), is_alive(e) is false, and an entity that
\* was issued and is no longer alive is not alive after any later call
\* (allocation, kill, kill_atomic or merge_atomic), also when its index is
\* reused.
C2_KilledStaysDead ==
    [][ /\ (last'.op = "kill" /\ last'.ok) => ~Allocator_is_alive(allocator', last'.e)
        /\ \A e \in Entities :
              (issued[e] > 0 /\ ~Allocator_is_alive(allocator, e))
                  => ~Allocator_is_alive(allocator', e) ]_vars

\* kill has just returned Ok for the second entity of an index, so the first
\* one is dead while its index has been reused.
C2_Witness ==
    /\ last.op = "kill" /\ last.ok
    /\ last.e.generation = 2
    /\ issued[Entity_new(last.e.index, 1)] = 1
    /\ ~Allocator_is_alive(allocator, Entity_new(last.e.index, 1))

\* C3: after merge_atomic(out), out holds exactly the entities for which
\* kill_atomic returned Ok since the previous merge and that no exclusive
\* kill killed in between, each once, whatever out held before and however
\* often kill_atomic was called on an entity.
C3_MergeReportsKilled ==
    last.op = "merge_atomic" =>
        /\ Range(last.out) = Counted(reaped)
        /\ Len(last.out) = Cardinality(Counted(reaped))

\* A merge has reported two entities, one of them killed atomically twice.
C3_Witness ==
    /\ last.op = "merge_atomic"
    /\ Len(last.out) = 2
    /\ \E e \in Entities : reaped[e] = 2

\* C5: from a kill_atomic(e) that returned Ok until the next merge_atomic or
\* kill(e), e is alive and no allocation returns an entity with e's index;
\* right after that merge_atomic, e is not alive.
C5_AtomicKillDeferred ==
    /\ \A e \in Counted(pending) : Allocator_is_alive(allocator, e)
    /\ last.op \in AllocOps =>
           \A e \in Counted(pending) : e.index # last.e.index
    /\ \A e \in Counted(reaped) : ~Allocator_is_alive(allocator, e)

\* An atomic allocation has returned while an atomic kill is pending.
C5_Witness ==
    /\ last.op = "allocate_atomic"
    /\ Counted(pending) # {}

\* C6: the three views of liveness agree: entity(i) = Some(e) iff
\* is_alive(e); entity(i) is Some exactly for the indices of live_bitset();
\* the entity reported for an index is the last one allocated there, and for
\* an atomically allocated index its generation is the raised value of the
\* stored generation.
C6_LivenessViewsAgree ==
    /\ \A e \in Entities :
          Allocator_is_alive(allocator, e) <=>
              Allocator_entity(allocator, e.index) = Some(e)
    /\ \A i \in 0 .. MaxIndex :
          IsSome(Allocator_entity(allocator, i)) <=>
              i \in Allocator_live_bitset(allocator)
    /\ \A i \in Indexes :
          IsSome(Allocator_entity(allocator, i)) =>
              Unwrap(Allocator_entity(allocator, i)).generation = lastGen[i]
    /\ \A i \in allocator.raised_atomic :
          /\ ~Generation_is_alive(Allocator_generation(allocator, i))
          /\ Unwrap(Allocator_entity(allocator, i)).generation =
                 Generation_raised(Allocator_generation(allocator, i))

\* An index reused atomically (stored generation still dead) next to an
\* exclusively allocated one.
C6_Witness ==
    /\ allocator.alive # {}
    /\ \E i \in allocator.raised_atomic : Allocator_generation(allocator, i) < 0

\* C7: right after allocate() or allocate_atomic() returns e, is_alive(e)
\* holds and e.index() < max_entity_count().
C7_AllocatedIsAlive ==
    last.op \in AllocOps =>
        /\ Allocator_is_alive(allocator, last.e)
        /\ last.e.index < Allocator_max_entity_count(allocator)

\* allocate_atomic has returned a fresh index the generations vector does
\* not cover yet.
C7_Witness ==
    /\ last.op = "allocate_atomic"
    /\ last.e.index >= Len(allocator.generations)

\* C9: allocate() takes a fresh index (the old max_entity_count, generation
\* 1, max_entity_count grows by one) exactly when no freed index is left;
\* otherwise it reuses the most recently freed index, leaves
\* max_entity_count unchanged and returns the generation after that of the
\* last entity that lived at the index.
C9_AllocateReuse ==
    [][ last'.op = "allocate" =>
          IF freed = << >>
          THEN /\ last'.e = Entity_new(Allocator_max_entity_count(allocator), 1)
               /\ Allocator_max_entity_count(allocator') =
                      Allocator_max_entity_count(allocator) + 1
          ELSE /\ last'.e = Entity_new(Last(freed), lastGen[Last(freed)] + 1)
               /\ Allocator_max_entity_count(allocator') =
                      Allocator_max_entity_count(allocator) ]_vars

\* allocate has reused an index while an older freed index is still free.
C9_Witness ==
    /\ last.op = "allocate"
    /\ last.e.generation >= 2
    /\ freed # << >>

----------------------------------------------------------------------------
(* A batch of atomic calls next to its serial equivalents.                  *)
(* allocator runs the atomic calls and the merge.  serial runs allocate for *)
(* every allocate_atomic and kill for every successful kill_atomic, each in *)
(* the place of the atomic call.  deferred runs allocate for every          *)
(* allocate_atomic and holds the kills back until the merge, where it kills *)
(* every held entity once, in ascending index order.  Between batches the   *)
(* exclusive calls move all three to a common state.                        *)

InBatch == phase = "batch"

SerialBase == IF InBatch THEN serial ELSE allocator
DeferredBase == IF InBatch THEN deferred ELSE allocator
HeldBase == IF InBatch THEN held ELSE {}
CorrBase == IF InBatch THEN corr ELSE [e \in Entities |-> e]

\* kill applied to the entities of es, in ascending index order.
RECURSIVE KillAll(_, _, _)
KillAll(a, es, iter) ==
    IF iter = << >> THEN a
    ELSE LET here == { e \in es : e.index = Head(iter) }
             a1 == IF here = {} THEN a
                   ELSE Allocator_kill(a, CHOOSE e \in here : TRUE).a
         IN  KillAll(a1, es, Tail(iter))

Synced(a) ==
    /\ allocator' = a
    /\ phase' = "idle"
    /\ serial' = a
    /\ deferred' = a
    /\ held' = {}
    /\ corr' = [e \in Entities |-> e]

BatchAllocate ==
    /\ ~InBatch
    /\ CanAllocate(allocator, MaxIndex, MaxGen)
    /\ LET r == Allocator_allocate(allocator, MAX_INDEX)
       IN  /\ ~r.panic
           /\ Synced(r.a)
           /\ last' = Call("allocate", r.e, TRUE, << >>)
    /\ UNCHANGED <<issued, pending, reaped, freed, lastGen, worldVars, storeVars, laterVars>>

BatchKill ==
    /\ ~InBatch
    /\ \E e \in Entities :
          LET r == Allocator_kill(allocator, e)
          IN  /\ r.ok
              /\ Synced(r.a)
              /\ last' = Call("kill", e, TRUE, << >>)
    /\ UNCHANGED <<issued, pending, reaped, freed, lastGen, worldVars, storeVars, laterVars>>

BatchAllocateAtomic ==
    /\ CanAllocate(allocator, MaxIndex, MaxGen)
    /\ CanAllocate(SerialBase, MaxIndex, MaxGen)
    /\ CanAllocate(DeferredBase, MaxIndex, MaxGen)
    /\ LET r  == Allocator_allocate_atomic(allocator, MAX_INDEX)
           rs == Allocator_allocate(SerialBase, MAX_INDEX)
           rd == Allocator_allocate(DeferredBase, MAX_INDEX)
       IN  /\ ~r.panic /\ ~rs.panic /\ ~rd.panic
           /\ allocator' = r.a
           /\ serial' = rs.a
           /\ deferred' = rd.a
           /\ held' = HeldBase
           /\ corr' = [CorrBase EXCEPT ![r.e] = rs.e]
           /\ last' = Call("allocate_atomic", r.e, TRUE, << >>)
    /\ phase' = "batch"
    /\ UNCHANGED <<issued, pending, reaped, freed, lastGen, worldVars, storeVars, laterVars>>

BatchKillAtomic ==
    /\ \E e \in Entities :
          LET r == Allocator_kill_atomic(allocator, e)
          IN  /\ r.ok
              /\ allocator' = r.a
              /\ serial' = Allocator_kill(SerialBase, CorrBase[e]).a
              /\ deferred' = DeferredBase
              /\ held' = HeldBase \cup {e}
              /\ corr' = CorrBase
              /\ last' = Call("kill_atomic", e, TRUE, << >>)
    /\ phase' = "batch"
    /\ UNCHANGED <<issued, pending, reaped, freed, lastGen, worldVars, storeVars, laterVars>>

BatchMerge ==
    /\ InBatch
    /\ \E out \in OutVectors :
          LET r == Allocator_merge_atomic(allocator, out)
          IN  /\ allocator' = r.a
              /\ last' = Call("merge_atomic", NoEntity, ~r.panic, r.killed)
    /\ serial' = Allocator_merge_atomic(serial, << >>).a
    /\ deferred' = Allocator_merge_atomic(
                       KillAll(deferred, held, BitIter(Indexes)), << >>).a
    /\ held' = {}
    /\ corr' = corr
    /\ phase' = "merged"
    /\ UNCHANGED <<issued, pending, reaped, freed, lastGen, worldVars, storeVars, laterVars>>

NextBatch ==
    \/ BatchAllocate
    \/ BatchKill
    \/ BatchAllocateAtomic
    \/ BatchKillAtomic
    \/ BatchMerge

SpecBatch == Init /\ [][NextBatch]_vars

LiveEntities(a) == { e \in Entities : Allocator_is_alive(a, e) }

LogicalCache(a) == SubSeq(a.cache.cache, 1, a.cache.len)

\* Same live entities, same generation per index, same free-index cache.
SameAllocatorState(a, b) ==
    /\ LiveEntities(a) = LiveEntities(b)
    /\ \A i \in 0 .. MaxIndex : Allocator_generation(a, i) = Allocator_generation(b, i)
    /\ LogicalCache(a) = LogicalCache(b)

\* C4 as stated: after the merge that ends a batch of allocate_atomic and
\* kill_atomic calls, the allocator is in the state of the serial run in
\* which each allocate_atomic is an allocate and each successful kill_atomic
\* a kill at the place of the atomic call.
C4_SerialInPlace ==
    phase = "merged" => SameAllocatorState(allocator, serial)

\* C4, amended: after the merge that ends a batch of allocate_atomic and
\* kill_atomic calls, the allocator is in the state of the serial run in
\* which each allocate_atomic is an allocate and the kills follow all the
\* allocations: every entity with a successful kill_atomic is killed once,
\* in ascending index order.
C4_SerialKillsAtMerge ==
    phase = "merged" =>
        /\ SameAllocatorState(allocator, deferred)
        /\ Allocator_max_entity_count(allocator) = Allocator_max_entity_count(deferred)

\* A merge has ended a batch that allocated atomically from the cache and
\* killed an entity atomically.
C4_Witness ==
    /\ phase = "merged"
    /\ last.out # << >>
    /\ \E e \in LiveEntities(allocator) : e.generation >= 2
    /\ LogicalCache(allocator) # << >>

----------------------------------------------------------------------------
(* A masked storage over each of the raw storages, driven through insert,   *)
(* remove and get_mut, next to the index -> value map it should hold        *)

MaxSlot == 3         \* the storage is used at the indices below this

Slots == 0 .. (MaxSlot - 1)

RawKinds == {VecStorage_default, DenseVecStorage_default, HashMapStorage_default}

\* A finished call on the store: v the value passed in, ret the result,
\* before the result of get(index) when the call began.
StoreCall(op, index, v, ret, before) ==
    [op |-> op, index |-> index, v |-> v, ret |-> ret, before |-> before]

InitStore ==
    /\ \E raw \in RawKinds : store = MaskedStorage_default(raw)
    /\ abstract = [i \in Slots |-> None]
    /\ slast = StoreCall("default", 0, "a", None, None)
    /\ InitAllocator /\ InitBatch /\ NoWorld /\ NoLater

StoreInsert ==
    /\ \E i \in Slots, v \in Values :
          LET r == MaskedStorage_insert(store, i, v)
          IN  \E ret \in r.rets :
                /\ store' = r.m
                /\ abstract' = [abstract EXCEPT ![i] = Some(v)]
                /\ slast' = StoreCall("insert", i, v, ret, abstract[i])
    /\ UNCHANGED <<allocVars, batchVars, worldVars, laterVars>>

StoreRemove ==
    /\ \E i \in Slots :
          LET r == MaskedStorage_remove(store, i)
          IN  \E ret \in r.rets :
                /\ store' = r.m
                /\ abstract' = [abstract EXCEPT ![i] = None]
                /\ slast' = StoreCall("remove", i, "a", ret, abstract[i])
    /\ UNCHANGED <<allocVars, batchVars, worldVars, laterVars>>

\* get_mut followed by a write of v through the reference.
StoreGetMut ==
    /\ \E i \in Slots, v \in Values :
          LET r == MaskedStorage_get_mut(store, i)
          IN  \E ret \in r.rets :
                /\ store' = IF IsSome(ret)
                            THEN [r.m EXCEPT !.storage = RawStorage_set(@, i, v)]
                            ELSE r.m
                /\ abstract' = IF IsSome(abstract[i])
                               THEN [abstract EXCEPT ![i] = Some(v)] ELSE abstract
                /\ slast' = StoreCall("get_mut", i, v, ret, abstract[i])
    /\ UNCHANGED <<allocVars, batchVars, worldVars, laterVars>>

NextStore ==
    \/ StoreInsert
    \/ StoreRemove
    \/ StoreGetMut

SpecStore == InitStore /\ [][NextStore]_vars

\* C10: for each of the three storages and after any sequence of calls:
\* after insert(i, v), get(i) = Some(v); remove(i) returns the value that
\* get(i) gave before it (Some(v) right after that insert, None after a
\* remove) and leaves get(i) = None; the values at the other indices are
\* those of the calls made on them.
C10_InsertGetRemove ==
    /\ \A i \in Slots : MaskedStorage_get(store, i) = {abstract[i]}
    /\ slast.op = "insert" =>
          MaskedStorage_get(store, slast.index) = {Some(slast.v)}
    /\ slast.op = "remove" =>
          /\ slast.ret = slast.before
          /\ MaskedStorage_get(store, slast.index) = {None}

\* A value has been removed from the middle of a storage that still holds
\* two others.
C10_Witness ==
    /\ slast.op = "remove"
    /\ IsSome(slast.ret)
    /\ slast.index = 0
    /\ store.mask = Slots \ {0}
    /\ abstract[1] # abstract[2]

----------------------------------------------------------------------------
(* The World (local_world.rs) with one registered component kept in a      *)
(* tracked storage: the allocator, the component storage and the remove    *)
(* hook of the component.  World.killed is cleared at the start of every   *)
(* merge and read only inside it, so it is local to World_merge here.      *)

WorldMaxIndex == 1   \* index_len of the world never grows beyond this
WorldMaxGen == 2     \* no generation of the world is raised beyond this

WorldEntities == [index : 0 .. (WorldMaxIndex - 1), generation : 1 .. WorldMaxGen]

WorldValues == {"a"}

World_new ==
    [allocator  |-> Allocator_new,
     components |-> MaskedStorage_default(Flagged_default(VecStorage_default))]

\* The hook insert_component registers: remove the component of each entity.
RECURSIVE remove_component(_, _)
remove_component(storage, entities) ==
    IF entities = << >> THEN storage
    ELSE remove_component(MaskedStorage_remove(storage, Head(entities).index).m,
                          Tail(entities))

World_create_entity(w) ==
    LET r == Allocator_allocate(w.allocator, MAX_INDEX)
    IN  [panic |-> r.panic, e |-> r.e, w |-> [w EXCEPT !.allocator = r.a]]

Entities_create(w) ==
    LET r == Allocator_allocate_atomic(w.allocator, MAX_INDEX)
    IN  [panic |-> r.panic, e |-> r.e, w |-> [w EXCEPT !.allocator = r.a]]

\* delete_entity that does not call the remove hooks.
World_delete_entity_KeepsComponents(w, e) ==
    LET r == Allocator_kill(w.allocator, e)
    IN  IF ~r.ok THEN [ok |-> FALSE, w |-> w]
        ELSE [ok |-> TRUE, w |-> [w EXCEPT !.allocator = r.a]]

World_delete_entity(w, e) ==
    LET r == Allocator_kill(w.allocator, e)
    IN  IF ~r.ok THEN [ok |-> FALSE, w |-> w]
        ELSE [ok |-> TRUE,
              w  |-> [w EXCEPT !.allocator = r.a,
                               !.components = remove_component(@, << e >>)]]

Entities_delete(w, e) ==
    LET r == Allocator_kill_atomic(w.allocator, e)
    IN  [ok |-> r.ok, w |-> [w EXCEPT !.allocator = r.a]]

World_merge(w) ==
    LET r == Allocator_merge_atomic(w.allocator, << >>)
    IN  [panic |-> r.panic,
         w |-> [allocator  |-> r.a,
                components |-> remove_component(w.components, r.killed)]]

ComponentAccess_get_or_insert_with(w, e, f) ==
    IF Allocator_is_alive(w.allocator, e)
    THEN [ok |-> TRUE,
          w  |-> [w EXCEPT !.components =
                      MaskedStorage_get_or_insert_with(@, e.index, f).m]]
    ELSE [ok |-> FALSE, w |-> w]

\* insert without the liveness check of the entity: what the check is for.
ComponentAccess_insert_Unchecked(w, e, c) ==
    [ok |-> TRUE,
     w  |-> [w EXCEPT !.components = MaskedStorage_insert(@, e.index, c).m]]

ComponentAccess_insert(w, e, c) ==
    IF Allocator_is_alive(w.allocator, e)
    THEN [ok |-> TRUE,
          w  |-> [w EXCEPT !.components = MaskedStorage_insert(@, e.index, c).m]]
    ELSE [ok |-> FALSE, w |-> w]

ComponentAccess_remove(w, e) ==
    IF Allocator_is_alive(w.allocator, e)
    THEN [ok |-> TRUE,
          w  |-> [w EXCEPT !.components = MaskedStorage_remove(@, e.index).m]]
    ELSE [ok |-> FALSE, w |-> w]

ComponentAccess_mark_modified(w, entity) ==
    IF Allocator_is_alive(w.allocator, entity)
    THEN [ok |-> TRUE,
          w  |-> [w EXCEPT !.components.storage =
                      TrackedStorage_mark_modified(@, entity.index)]]
    ELSE [ok |-> FALSE, w |-> w]

InitWorld ==
    /\ world = World_new
    /\ InitAllocator /\ InitBatch /\ NoStore /\ NoLater

\* A finished call on the world; the entity is kept for the calls keyed by
\* an entity that failed, which are the ones the properties look at.
Called(op, e, ok) ==
    last' = Call(op, IF ok THEN NoEntity ELSE e, ok, << >>)

WorldCreateEntity ==
    /\ CanAllocate(world.allocator, WorldMaxIndex, WorldMaxGen)
    /\ LET r == World_create_entity(world)
       IN  ~r.panic /\ world' = r.w /\ Called("create_entity", r.e, TRUE)
    /\ UNCHANGED <<allocator, issued, pending, reaped, freed, lastGen>>
    /\ UNCHANGED <<batchVars, storeVars, laterVars>>

WorldEntitiesCreate ==
    /\ CanAllocate(world.allocator, WorldMaxIndex, WorldMaxGen)
    /\ LET r == Entities_create(world)
       IN  ~r.panic /\ world' = r.w /\ Called("create", r.e, TRUE)
    /\ UNCHANGED <<allocator, issued, pending, reaped, freed, lastGen>>
    /\ UNCHANGED <<batchVars, storeVars, laterVars>>

WorldDeleteEntity ==
    /\ \E e \in WorldEntities :
          LET r == World_delete_entity(world, e)
          IN  world' = r.w /\ Called("delete_entity", e, r.ok)
    /\ UNCHANGED <<allocator, issued, pending, reaped, freed, lastGen>>
    /\ UNCHANGED <<batchVars, storeVars, laterVars>>

WorldEntitiesDelete ==
    /\ \E e \in WorldEntities :
          LET r == Entities_delete(world, e)
          IN  world' = r.w /\ Called("delete", e, r.ok)
    /\ UNCHANGED <<allocator, issued, pending, reaped, freed, lastGen>>
    /\ UNCHANGED <<batchVars, storeVars, laterVars>>

WorldMerge ==
    /\ LET r == World_merge(world)
       IN  world' = r.w /\ Called("merge", NoEntity, ~r.panic)
    /\ UNCHANGED <<allocator, issued, pending, reaped, freed, lastGen>>
    /\ UNCHANGED <<batchVars, storeVars, laterVars>>

WorldGetOrInsertWith ==
    /\ \E e \in WorldEntities, v \in WorldValues :
          LET r == ComponentAccess_get_or_insert_with(world, e, v)
          IN  world' = r.w /\ Called("get_or_insert_with", e, r.ok)
    /\ UNCHANGED <<allocator, issued, pending, reaped, freed, lastGen>>
    /\ UNCHANGED <<batchVars, storeVars, laterVars>>

WorldInsert ==
    /\ \E e \in WorldEntities, v \in WorldValues :
          LET r == ComponentAccess_insert(world, e, v)
          IN  world' = r.w /\ Called("insert", e, r.ok)
    /\ UNCHANGED <<allocator, issued, pending, reaped, freed, lastGen>>
    /\ UNCHANGED <<batchVars, storeVars, laterVars>>

WorldRemove ==
    /\ \E e \in WorldEntities :
          LET r == ComponentAccess_remove(world, e)
          IN  world' = r.w /\ Called("remove", e, r.ok)
    /\ UNCHANGED <<allocator, issued, pending, reaped, freed, lastGen>>
    /\ UNCHANGED <<batchVars, storeVars, laterVars>>

WorldMarkModified ==
    /\ \E e \in WorldEntities :
          LET r == ComponentAccess_mark_modified(world, e)
          IN  world' = r.w /\ Called("mark_modified", e, r.ok)
    /\ UNCHANGED <<allocator, issued, pending, reaped, freed, lastGen>>
    /\ UNCHANGED <<batchVars, storeVars, laterVars>>

NextWorld ==
    \/ WorldCreateEntity
    \/ WorldEntitiesCreate
    \/ WorldDeleteEntity
    \/ WorldEntitiesDelete
    \/ WorldMerge
    \/ WorldGetOrInsertWith
    \/ WorldInsert
    \/ WorldRemove
    \/ WorldMarkModified

SpecWorld == InitWorld /\ [][NextWorld]_vars

EntityKeyedOps ==
    {"delete_entity", "delete", "get_or_insert_with", "insert", "remove",
     "mark_modified"}

\* C8: kill (World::delete_entity), kill_atomic (Entities::delete) and the
\* component calls insert, remove, get_or_insert_with and mark_modified,
\* called with an entity that is not alive, return Err(WrongGeneration) and
\* leave the allocator and the component storage as they were.
C8_WrongGeneration ==
    \A e \in WorldEntities :
        ~Allocator_is_alive(world.allocator, e) =>
            /\ World_delete_entity(world, e) = [ok |-> FALSE, w |-> world]
            /\ Entities_delete(world, e) = [ok |-> FALSE, w |-> world]
            /\ ComponentAccess_remove(world, e) = [ok |-> FALSE, w |-> world]
            /\ ComponentAccess_mark_modified(world, e) = [ok |-> FALSE, w |-> world]
            /\ \A v \in WorldValues :
                  /\ ComponentAccess_insert(world, e, v) =
                         [ok |-> FALSE, w |-> world]
                  /\ ComponentAccess_get_or_insert_with(world, e, v) =
                         [ok |-> FALSE, w |-> world]

\* insert has failed for a stale entity whose index holds a newer entity
\* that has a component.
C8_Witness ==
    /\ last.op = "insert" /\ ~last.ok
    /\ last.e \in WorldEntities
    /\ \E g \in 1 .. WorldMaxGen :
          /\ g > last.e.generation
          /\ Allocator_is_alive(world.allocator, Entity_new(last.e.index, g))
    /\ last.e.index \in world.components.mask

----------------------------------------------------------------------------
(* Drop of a MaskedStorage (masked.rs:191-210).  The removal of an index    *)
(* panics when the destructor of the value it returns panics; panics is the *)
(* set of indices where that happens.  The first panic unwinds through the  *)
(* nested DropGuard, whose drop goes on with the rest of the iterator; a    *)
(* second panic, raised while unwinding, aborts the process.                *)

\* A DropGuard that does not go on after a panic.
RECURSIVE DropGuard_drop_NoGuard(_, _, _, _, _)
DropGuard_drop_NoGuard(iter, storage, panics, unwinding, log) ==
    IF iter = << >>
    THEN [outcome |-> "ok", storage |-> storage, log |-> log]
    ELSE LET index == Head(iter)
             r     == RawStorage_remove(storage, index)
             log1  == Append(log, [index |-> index, rets |-> r.rets])
         IN  IF index \in panics
             THEN [outcome |-> "panic", storage |-> r.s, log |-> log1]
             ELSE DropGuard_drop_NoGuard(Tail(iter), r.s, panics, unwinding, log1)

\* log is the sequence of the calls of S::remove: the index and the set of
\* values the call may return.
RECURSIVE DropGuard_drop(_, _, _, _, _)
DropGuard_drop(iter, storage, panics, unwinding, log) ==
    IF iter = << >>
    THEN [outcome |-> IF unwinding THEN "panic" ELSE "ok",
          storage |-> storage, log |-> log]
    ELSE LET index == Head(iter)
             r     == RawStorage_remove(storage, index)
             log1  == Append(log, [index |-> index, rets |-> r.rets])
         IN  IF index \in panics
             THEN IF unwinding
                  THEN [outcome |-> "abort", storage |-> r.s, log |-> log1]
                  ELSE DropGuard_drop(Tail(iter), r.s, panics, TRUE, log1)
             ELSE DropGuard_drop(Tail(iter), r.s, panics, unwinding, log1)

MaskedStorage_drop(m, panics) ==
    DropGuard_drop(BitIter(m.mask), m.storage, panics, FALSE, << >>)

\* The values a raw storage still owns, which its own drop glue drops:
\* MaybeUninit slots own nothing.
RECURSIVE Leftover(_)
Leftover(s) ==
    CASE s.kind = "Vec" -> << >>
      [] s.kind = "Dense" -> s.values
      [] s.kind = "HashMap" -> [k \in 1 .. Cardinality(DOMAIN s.map) |->
                                   s.map[BitIter(DOMAIN s.map)[k]]]
      [] s.kind = "Flagged" -> Leftover(s.storage)

Dropped == dropped # << >>

DropInsert == ~Dropped /\ StoreInsert

DropRemove == ~Dropped /\ StoreRemove

DropGetMut == ~Dropped /\ StoreGetMut

\* The storage goes out of scope: store keeps the mask it had and holds the
\* raw storage as the removals left it.
StoreDrop ==
    /\ ~Dropped
    /\ \E panics \in SUBSET Slots :
          LET r == MaskedStorage_drop(store, panics)
          IN  /\ dropped' = [panics |-> panics, outcome |-> r.outcome,
                             log |-> r.log, leftover |-> Leftover(r.storage)]
              /\ store' = [store EXCEPT !.storage = r.storage]
    /\ UNCHANGED <<abstract, slast>>
    /\ UNCHANGED <<allocVars, batchVars, worldVars, joinVars, rwVars, sysVars>>

NextDrop ==
    \/ DropInsert
    \/ DropRemove
    \/ DropGetMut
    \/ StoreDrop

SpecDrop == InitStore /\ [][NextDrop]_vars

\* The number of calls of S::remove on index i.
Removals(i) == Cardinality({ k \in 1 .. Len(dropped.log) : dropped.log[k].index = i })

\* C11: when at most one removal panics, the drop of a masked storage calls
\* S::remove once on each index of the mask and on no other index, each call
\* returns the value stored at the index, and the raw storage owns no value
\* afterwards, so every stored value is dropped exactly once.
C11_DropRemovesEach ==
    (Dropped /\ Cardinality(dropped.panics \cap store.mask) <= 1) =>
        /\ dropped.outcome # "abort"
        /\ \A i \in Slots : Removals(i) = IF i \in store.mask THEN 1 ELSE 0
        /\ \A k \in 1 .. Len(dropped.log) :
              dropped.log[k].rets = {Unwrap(abstract[dropped.log[k].index])}
        /\ dropped.leftover = << >>

\* A storage with three values has been dropped and the removal of the
\* first of them panicked.
C11_Witness ==
    /\ Dropped
    /\ store.mask = Slots
    /\ dropped.panics = {0}
    /\ dropped.outcome = "panic"
    /\ Len(dropped.log) = MaxSlot

----------------------------------------------------------------------------
(* A masked storage over Flagged<VecStorage> (tracked.rs), driven through   *)
(* the calls of the masked storage, the calls of the tracked wrapper and    *)
(* the guarded element handles (masked.rs:60-74, 107-113, 212-250).         *)

MaxTracked == 2      \* the tracked storage is used at the indices below this

TrackedSlots == 0 .. (MaxTracked - 1)

\* get_guard: the handle of an index of the mask; a handle is its index.
MaskedStorage_get_guard(m, index) ==
    IF index \in m.mask THEN Some(index) ELSE None

GuardedElement_get(m, index) == RawStorage_get(m.storage, index)

\* A handle whose get_mut goes past the tracked wrapper.
GuardedElement_get_mut_Silent(m, index) == m

\* get_mut of the handle is get_mut of the raw storage the handle points to.
GuardedElement_get_mut(m, index) ==
    [m EXCEPT !.storage = RawStorage_get_mut(@, index)]

GuardedElement_mark_modified(m, index) ==
    [m EXCEPT !.storage = TrackedStorage_mark_modified(@, index)]

\* What a caller does with a handle: nothing, read it, write v through
\* get_mut, or mark it.
HandleUses == {"none", "get", "get_mut", "mark_modified"}

UseHandle(m, index, use, v) ==
    CASE use = "get_mut" ->
            LET m1 == GuardedElement_get_mut(m, index)
            IN  [m1 EXCEPT !.storage = RawStorage_set(@, index, v)]
      [] use = "mark_modified" -> GuardedElement_mark_modified(m, index)
      [] OTHER -> m

\* The loop over guard().join(): one handle per index of the mask, in
\* ascending order, used as uses says.
RECURSIVE GuardedJoin_run(_, _, _, _)
GuardedJoin_run(m, iter, uses, v) ==
    IF iter = << >> THEN m
    ELSE GuardedJoin_run(UseHandle(m, Head(iter), uses[Head(iter)], v),
                         Tail(iter), uses, v)

Written(abs, uses, v) ==
    [i \in DOMAIN abs |->
        IF i \in DOMAIN uses /\ uses[i] = "get_mut" THEN Some(v) ELSE abs[i]]

InitTracked ==
    /\ store = MaskedStorage_default(Flagged_default(VecStorage_default))
    /\ abstract = [i \in Slots \cup TrackedSlots |-> None]
    /\ slast = StoreCall("default", 0, "a", None, None)
    /\ InitAllocator /\ InitBatch /\ NoWorld /\ NoLater

\* insert, remove and get_mut of the masked storage, at the tracked indices.
TrackedInsert == StoreInsert /\ slast'.index \in TrackedSlots

TrackedRemove == StoreRemove /\ slast'.index \in TrackedSlots

TrackedGetMut == StoreGetMut /\ slast'.index \in TrackedSlots

TrackedSetTrackModified ==
    /\ \E flag \in BOOLEAN :
          /\ store' = [store EXCEPT !.storage =
                          TrackedStorage_set_track_modified(@, flag)]
          /\ slast' = StoreCall("set_track_modified", 0, "a", None, None)
    /\ UNCHANGED abstract
    /\ UNCHANGED <<allocVars, batchVars, worldVars, laterVars>>

TrackedMarkModified ==
    /\ \E i \in TrackedSlots :
          /\ store' = [store EXCEPT !.storage = TrackedStorage_mark_modified(@, i)]
          /\ slast' = StoreCall("mark_modified", i, "a", None, None)
    /\ UNCHANGED abstract
    /\ UNCHANGED <<allocVars, batchVars, worldVars, laterVars>>

TrackedClearModified ==
    /\ store' = [store EXCEPT !.storage = TrackedStorage_clear_modified(@)]
    /\ slast' = StoreCall("clear_modified", 0, "a", None, None)
    /\ UNCHANGED abstract
    /\ UNCHANGED <<allocVars, batchVars, worldVars, laterVars>>

\* get_guard(i) and one use of the handle it returns.
TrackedGetGuard ==
    /\ \E i \in TrackedSlots, use \in HandleUses, v \in Values :
          LET h    == MaskedStorage_get_guard(store, i)
              uses == [j \in store.mask |-> IF j = i THEN use ELSE "none"]
          IN  /\ store' = IF IsSome(h) THEN UseHandle(store, Unwrap(h), use, v)
                          ELSE store
              /\ abstract' = Written(abstract, uses, v)
              /\ slast' = StoreCall("get_guard", i, v, uses, None)
    /\ UNCHANGED <<allocVars, batchVars, worldVars, laterVars>>

\* A loop over guard().join() that uses the handle of each index of the
\* mask in one way.
TrackedGuardJoin ==
    /\ \E uses \in [store.mask -> HandleUses], v \in Values :
          /\ store' = GuardedJoin_run(store, BitIter(store.mask), uses, v)
          /\ abstract' = Written(abstract, uses, v)
          /\ slast' = StoreCall("guard", 0, v, uses, None)
    /\ UNCHANGED <<allocVars, batchVars, worldVars, laterVars>>

NextTracked ==
    \/ TrackedInsert
    \/ TrackedRemove
    \/ TrackedGetMut
    \/ TrackedSetTrackModified
    \/ TrackedMarkModified
    \/ TrackedClearModified
    \/ TrackedGetGuard
    \/ TrackedGuardJoin

SpecTracked == InitTracked /\ [][NextTracked]_vars

Modified(m) == m.storage.modified

\* The modified bits after a call that flags index i when flagged holds.
Flags(flagged, i) ==
    Modified(store') = IF flagged THEN Modified(store) \cup {i} ELSE Modified(store)

\* C12 as stated: with tracking on, insert, get_mut and remove at index i
\* each set the modified bit of i, and with tracking off they set no bit;
\* mark_modified(i) sets the bit of i whatever the flag; clear_modified()
\* clears every bit.
C12_CallsFlag ==
    [][ /\ slast'.op \in {"insert", "get_mut", "remove"} =>
              Flags(store.storage.tracking, slast'.index)
        /\ slast'.op = "mark_modified" => Flags(TRUE, slast'.index)
        /\ slast'.op = "clear_modified" => Modified(store') = {}
      ]_vars

\* C12, amended: with tracking on, insert at any index i, and get_mut and
\* remove at an index i that holds a value, set the modified bit of i;
\* get_mut and remove at an empty index, and every call with tracking off,
\* set no bit; mark_modified(i) sets the bit of i whatever the flag;
\* clear_modified() clears every bit.
C12_OccupiedCallsFlag ==
    [][ /\ slast'.op = "insert" =>
              Flags(store.storage.tracking, slast'.index)
        /\ slast'.op \in {"get_mut", "remove"} =>
              Flags(store.storage.tracking /\ slast'.index \in store.mask,
                    slast'.index)
        /\ slast'.op = "mark_modified" => Flags(TRUE, slast'.index)
        /\ slast'.op = "clear_modified" => Modified(store') = {}
      ]_vars

\* With tracking on and after a clear, a remove of a stored value has set
\* the bit of its index and of no other.
C12_Witness ==
    /\ slast.op = "remove"
    /\ IsSome(slast.ret)
    /\ store.storage.tracking
    /\ Modified(store) = {slast.index}
    /\ store.mask # {}

\* The indices whose handle was used as use in the last call.
Used(use) == { i \in store.mask : slast'.ret[i] = use }

\* C13 as stated: visiting the elements through get_guard or a guarded join
\* and writing through the handles sets the modified bit of an element only
\* when mark_modified is called on its handle.
C13_OnlyExplicitMark ==
    [][ slast'.op \in {"get_guard", "guard"} =>
            Modified(store') = Modified(store) \cup Used("mark_modified")
      ]_vars

\* C13, amended: creating a handle through get_guard or a guarded join, and
\* reading through it, sets no modified bit; the bit of an element is set
\* when mark_modified is called on its handle, and when get_mut is called on
\* its handle while tracking is on.
C13_HandleFlagsOnGetMut ==
    [][ slast'.op \in {"get_guard", "guard"} =>
            Modified(store') =
                Modified(store) \cup Used("mark_modified")
                    \cup (IF store.storage.tracking THEN Used("get_mut") ELSE {})
      ]_vars

\* With tracking on, a guarded join has read one element and written the
\* other, and only the written one is flagged.
C13_Witness ==
    /\ slast.op = "guard"
    /\ store.storage.tracking
    /\ store.mask = TrackedSlots
    /\ slast.ret[0] = "get"
    /\ slast.ret[1] = "get_mut"
    /\ Modified(store) = {1}

----------------------------------------------------------------------------
(* Joins (join.rs).  A mask is an expression over bitsets, as the hibitset  *)
(* types BitSet, AtomicBitSet, BitSetAll, BitSetNot, BitSetAnd, BitSetOr    *)
(* and BitSetXor build it.  The index space of a mask is JoinSlots.         *)

MaxJoin == 2         \* the index space of a join: the indices below this

JoinSlots == 0 .. (MaxJoin - 1)

BitSet(bits) == [kind |-> "BitSet", bits |-> bits]
AtomicBitSet(bits) == [kind |-> "AtomicBitSet", bits |-> bits]
BitSetAll == [kind |-> "All"]
BitSetNot(a) == [kind |-> "Not", a |-> a]
BitSetAnd(a, b) == [kind |-> "And", a |-> a, b |-> b]
BitSetOr(a, b) == [kind |-> "Or", a |-> a, b |-> b]
BitSetXor(a, b) == [kind |-> "Xor", a |-> a, b |-> b]

RECURSIVE BitSetLike_contains(_, _)
BitSetLike_contains(m, i) ==
    CASE m.kind \in {"BitSet", "AtomicBitSet"} -> i \in m.bits
      [] m.kind = "All" -> TRUE
      [] m.kind = "Not" -> ~BitSetLike_contains(m.a, i)
      [] m.kind = "And" -> BitSetLike_contains(m.a, i) /\ BitSetLike_contains(m.b, i)
      [] m.kind = "Or" -> BitSetLike_contains(m.a, i) \/ BitSetLike_contains(m.b, i)
      [] m.kind = "Xor" -> BitSetLike_contains(m.a, i) # BitSetLike_contains(m.b, i)

\* The indices of the mask, in the ascending order BitIter gives them.
BitSetLike_iter(m) == BitIter({ i \in JoinSlots : BitSetLike_contains(m, i) })

\* Or and Xor constrained when either operand is.
RECURSIVE is_constrained_Either(_)
is_constrained_Either(m) ==
    CASE m.kind \in {"BitSet", "AtomicBitSet"} -> TRUE
      [] m.kind = "All" -> FALSE
      [] m.kind = "Not" -> ~is_constrained_Either(m.a)
      [] OTHER -> is_constrained_Either(m.a) \/ is_constrained_Either(m.b)

RECURSIVE is_constrained(_)
is_constrained(m) ==
    CASE m.kind \in {"BitSet", "AtomicBitSet"} -> TRUE
      [] m.kind = "All" -> FALSE
      [] m.kind = "Not" -> ~is_constrained(m.a)
      [] m.kind = "And" -> is_constrained(m.a) \/ is_constrained(m.b)
      [] m.kind = "Or" -> is_constrained(m.a) /\ is_constrained(m.b)
      [] m.kind = "Xor" -> is_constrained(m.a) /\ is_constrained(m.b)

\* The and of a tuple of masks that takes the first mask only.
BitAnd_First(masks) == Head(masks)

\* BitAnd of a tuple of masks: BitSetAnd(first, and of the rest).
RECURSIVE BitAnd(_)
BitAnd(masks) ==
    IF Len(masks) = 1 THEN Head(masks)
    ELSE BitSetAnd(Head(masks), BitAnd(Tail(masks)))

\* The joinable values: a shared reference to a masked storage (name tells
\* the storages of a tuple apart), maybe() of a join, a tuple of joins; a
\* mask is a join of its own indices.
StorageJoin(name, m) == [kind |-> "Storage", name |-> name, m |-> m]
MaybeJoin(j) == [kind |-> "Maybe", j |-> j]
JoinTuple(js) == [kind |-> "Tuple", js |-> js]

RECURSIVE Join_open(_)
Join_open(j) ==
    CASE j.kind = "Storage" ->
            [mask   |-> BitSet(j.m.mask),
             access |-> [kind |-> "Storage", name |-> j.name, storage |-> j.m.storage]]
      [] j.kind = "Maybe" ->
            LET o == Join_open(j.j)
            IN  [mask   |-> BitSetAll,
                 access |-> [kind |-> "Maybe", mask |-> o.mask, access |-> o.access]]
      [] j.kind = "Tuple" ->
            LET opens == [k \in DOMAIN j.js |-> Join_open(j.js[k])]
            IN  [mask   |-> BitAnd([k \in DOMAIN opens |-> opens[k].mask]),
                 access |-> [kind |-> "Tuple",
                             accesses |-> [k \in DOMAIN opens |-> opens[k].access]]]
      [] OTHER -> [mask |-> j, access |-> [kind |-> "Unit"]]

\* MaybeJoin::get without the test of the inner mask.
RECURSIVE Join_get(_, _)
RECURSIVE JoinTuple_get(_, _)
RECURSIVE MaybeJoin_get_Unchecked(_, _)
MaybeJoin_get_Unchecked(access, index) ==
    LET r == Join_get(access.access, index)
    IN  [rets |-> { Some(x) : x \in r.rets }, calls |-> r.calls]

RECURSIVE MaybeJoin_get(_, _)
MaybeJoin_get(access, index) ==
    IF BitSetLike_contains(access.mask, index)
    THEN LET r == Join_get(access.access, index)
         IN  [rets |-> { Some(x) : x \in r.rets }, calls |-> r.calls]
    ELSE [rets |-> { None }, calls |-> << >>]

\* Join::get: the set of items the call may return, and the calls of get it
\* makes on the raw storages (name and index), in order.
Join_get(access, index) ==
    CASE access.kind = "Storage" ->
            [rets  |-> RawStorage_get(access.storage, index),
             calls |-> << <<access.name, index>> >>]
      [] access.kind = "Maybe" -> MaybeJoin_get(access, index)
      [] access.kind = "Tuple" -> JoinTuple_get(access.accesses, index)
      [] access.kind = "Unit" -> [rets |-> { index }, calls |-> << >>]

JoinTuple_get(accesses, index) ==
    IF accesses = << >> THEN [rets |-> { << >> }, calls |-> << >>]
    ELSE LET h == Join_get(Head(accesses), index)
             t == JoinTuple_get(Tail(accesses), index)
         IN  [rets  |-> { << x >> \o y : x \in h.rets, y \in t.rets },
              calls |-> h.calls \o t.calls]

\* A constructor that does not look at the mask.
JoinIter_new_Unchecked(j) ==
    LET o == Join_open(j)
    IN  [ok |-> TRUE, iter |-> BitSetLike_iter(o.mask), access |-> o.access]

\* JoinIter::new and JoinIter::new_unconstrained: Result as a record.
JoinIter_new(j) ==
    LET o == Join_open(j)
    IN  IF is_constrained(o.mask)
        THEN [ok |-> TRUE, iter |-> BitSetLike_iter(o.mask), access |-> o.access]
        ELSE [ok |-> FALSE]

JoinIter_new_unconstrained(j) ==
    LET o == Join_open(j)
    IN  [ok |-> TRUE, iter |-> BitSetLike_iter(o.mask), access |-> o.access]

\* The items of the iterator until next gives None: for each, the index, the
\* possible items and the calls made on the raw storages.
RECURSIVE JoinIter_collect(_, _)
JoinIter_collect(iter, access) ==
    IF iter = << >> THEN << >>
    ELSE LET g == Join_get(access, Head(iter))
         IN  << [index |-> Head(iter), rets |-> g.rets, calls |-> g.calls] >>
                 \o JoinIter_collect(Tail(iter), access)

\* join(): JoinIter::new(..).unwrap(), then the iteration.
IntoJoinExt_join(j) ==
    LET r == JoinIter_new(j)
    IN  IF r.ok
        THEN [outcome |-> "ok", items |-> JoinIter_collect(r.iter, r.access)]
        ELSE [outcome |-> "panic", items |-> << >>]

IntoJoinExt_join_unconstrained(j) ==
    LET r == JoinIter_new_unconstrained(j)
    IN  [outcome |-> "ok", items |-> JoinIter_collect(r.iter, r.access)]

\* The constructor alone, for the caller that handles the error.
JoinIter_new_collect(j) ==
    LET r == JoinIter_new(j)
    IN  IF r.ok
        THEN [outcome |-> "ok", items |-> JoinIter_collect(r.iter, r.access)]
        ELSE [outcome |-> "err", items |-> << >>]

----------------------------------------------------------------------------
(* Joins over two masked storages: a over VecStorage, b over                *)
(* DenseVecStorage, as in tests/storage.rs.  join.last is the last run of a *)
(* join over them; a call that changes a storage forgets it.                *)

NoRun == [source |-> "none", entry |-> "none", outcome |-> "none", items |-> << >>]

JoinSources == {"a_b", "a_maybe_b", "maybe_b", "maybe_a_maybe_b"}

JoinEntries == {"join", "join_unconstrained", "new"}

\* The join a caller builds from the two storages.
SourceOf(src, a, b) ==
    CASE src = "a_b" -> JoinTuple(<< StorageJoin("a", a), StorageJoin("b", b) >>)
      [] src = "a_maybe_b" ->
            JoinTuple(<< StorageJoin("a", a), MaybeJoin(StorageJoin("b", b)) >>)
      [] src = "maybe_b" -> MaybeJoin(StorageJoin("b", b))
      [] src = "maybe_a_maybe_b" ->
            JoinTuple(<< MaybeJoin(StorageJoin("a", a)), MaybeJoin(StorageJoin("b", b)) >>)

RunOf(entry, j) ==
    CASE entry = "join" -> IntoJoinExt_join(j)
      [] entry = "join_unconstrained" -> IntoJoinExt_join_unconstrained(j)
      [] entry = "new" -> JoinIter_new_collect(j)

InitJoin ==
    /\ join = [a    |-> MaskedStorage_default(VecStorage_default),
               b    |-> MaskedStorage_default(DenseVecStorage_default),
               last |-> NoRun]
    /\ InitAllocator /\ InitBatch /\ NoWorld /\ NoStore /\ NoDrop /\ NoRw /\ NoSys

JoinInsert ==
    /\ \E n \in {"a", "b"}, i \in JoinSlots, v \in Values :
          join' = [join EXCEPT ![n] = MaskedStorage_insert(@, i, v).m,
                               !.last = NoRun]
    /\ UNCHANGED <<allocVars, batchVars, worldVars, storeVars, dropVars, rwVars, sysVars>>

JoinRemove ==
    /\ \E n \in {"a", "b"}, i \in JoinSlots :
          join' = [join EXCEPT ![n] = MaskedStorage_remove(@, i).m,
                               !.last = NoRun]
    /\ UNCHANGED <<allocVars, batchVars, worldVars, storeVars, dropVars, rwVars, sysVars>>

JoinRun ==
    /\ \E src \in JoinSources, entry \in JoinEntries :
          LET r == RunOf(entry, SourceOf(src, join.a, join.b))
          IN  join' = [join EXCEPT !.last = [source  |-> src,
                                             entry   |-> entry,
                                             outcome |-> r.outcome,
                                             items   |-> r.items]]
    /\ UNCHANGED <<allocVars, batchVars, worldVars, storeVars, dropVars, rwVars, sysVars>>

NextJoin ==
    \/ JoinInsert
    \/ JoinRemove
    \/ JoinRun

SpecJoin == InitJoin /\ [][NextJoin]_vars

\* The indices of the items of the last run, in the order of the run.
Visited == [k \in DOMAIN join.last.items |-> join.last.items[k].index]

\* C14: the join of the tuple (a, b) yields one item per index that is in
\* the mask of a and in the mask of b, in ascending order and each index
\* once; the item at index i is (a.get(i), b.get(i)), read by one get on
\* each storage at i.
C14_TupleJoin ==
    join.last.source = "a_b" =>
        /\ join.last.outcome = "ok"
        /\ Visited = BitIter(join.a.mask \cap join.b.mask)
        /\ \A k \in DOMAIN join.last.items :
              LET it == join.last.items[k]
              IN  /\ it.rets =
                        { << Unwrap(x), Unwrap(y) >> :
                            x \in MaskedStorage_get(join.a, it.index),
                            y \in MaskedStorage_get(join.b, it.index) }
                  /\ it.calls = << <<"a", it.index>>, <<"b", it.index>> >>

\* A join of (a, b) has yielded an item while one of the storages holds a
\* value at an index where the other holds none.
C14_Witness ==
    /\ join.last.source = "a_b"
    /\ join.last.entry = "join"
    /\ join.last.items # << >>
    /\ join.a.mask # join.b.mask

\* The sources whose mask is unconstrained: a lone maybe() has the mask
\* All, a tuple of maybes the mask And(All, All).
UnconstrainedSources == {"maybe_b", "maybe_a_maybe_b"}

MaybeCalls(i) ==
    IF i \in join.b.mask THEN << <<"a", i>>, <<"b", i>> >> ELSE << <<"a", i>> >>

\* C18: a lone b.maybe() visits every index of the index space and yields
\* b.get(i), which is Some exactly at the indices of the mask of b, and it
\* calls get of b at no other index; (a, b.maybe()).join() visits exactly
\* the indices of the mask of a, in ascending order, and yields
\* (a's value at i, b.get(i)).
C18_MaybeJoin ==
    /\ (join.last.source = "maybe_b" /\ join.last.outcome = "ok") =>
          /\ Visited = BitIter(JoinSlots)
          /\ \A k \in DOMAIN join.last.items :
                LET it == join.last.items[k]
                IN  /\ it.rets = MaskedStorage_get(join.b, it.index)
                    /\ it.calls = IF it.index \in join.b.mask
                                  THEN << <<"b", it.index>> >> ELSE << >>
    /\ join.last.source = "a_maybe_b" =>
          /\ join.last.outcome = "ok"
          /\ Visited = BitIter(join.a.mask)
          /\ \A k \in DOMAIN join.last.items :
                LET it == join.last.items[k]
                IN  /\ it.rets =
                          { << Unwrap(x), y >> :
                              x \in MaskedStorage_get(join.a, it.index),
                              y \in MaskedStorage_get(join.b, it.index) }
                    /\ it.calls = MaybeCalls(it.index)

\* (a, b.maybe()).join() has yielded an item with Some and an item with None.
C18_Witness ==
    /\ join.last.source = "a_maybe_b"
    /\ join.last.entry = "join"
    /\ \E k \in DOMAIN join.last.items : \E x \in join.last.items[k].rets : x[2] = None
    /\ \E k \in DOMAIN join.last.items : \E x \in join.last.items[k].rets : IsSome(x[2])

----------------------------------------------------------------------------
(* RwResources (resources.rs): two sets of resource ids.  rw holds two      *)
(* values a and b, the last call, and for each value the ids that add_write *)
(* was called with.                                                         *)

MaxRes == 2          \* the number of resource ids

ResourceIds == 1 .. MaxRes

RwResources_new == [reads |-> {}, writes |-> {}]

RwResources_add_read(x, r) ==
    IF r \notin x.writes THEN [x EXCEPT !.reads = @ \cup {r}] ELSE x

\* add_write that leaves the reads alone.
RwResources_add_write_KeepsRead(x, r) == [x EXCEPT !.writes = @ \cup {r}]

RwResources_add_write(x, r) ==
    [x EXCEPT !.reads = @ \ {r}, !.writes = @ \cup {r}]

\* A union that takes the writes of other and forgets its reads.
RwResources_union_DropsReads(self, other) ==
    [reads |-> self.reads, writes |-> self.writes \cup other.writes]

\* union: first every write of other is inserted, then every read of other
\* that is not a write of self by then.
RwResources_union(self, other) ==
    LET writes == self.writes \cup other.writes
    IN  [reads  |-> self.reads \cup { r \in other.reads : r \notin writes },
         writes |-> writes]

\* conflicts_with that looks at the writes of both only.
RwResources_conflicts_with_WritesOnly(self, other) ==
    self.writes \cap other.writes # {}

RwResources_conflicts_with(self, other) ==
    \/ self.writes \cap other.reads # {}
    \/ self.writes \cap other.writes # {}
    \/ other.writes \cap self.reads # {}
    \/ other.writes \cap self.writes # {}

RwNames == {"a", "b"}

Other(n) == IF n = "a" THEN "b" ELSE "a"

RwCall(op, n, r) == [op |-> op, n |-> n, r |-> r]

InitRw ==
    /\ rw = [a |-> RwResources_new, b |-> RwResources_new,
             last |-> RwCall("new", "a", 0),
             written |-> [n \in RwNames |-> {}]]
    /\ InitAllocator /\ InitBatch /\ NoWorld /\ NoStore /\ NoDrop /\ NoJoin /\ NoSys

RwAddRead ==
    /\ \E n \in RwNames, r \in ResourceIds :
          rw' = [rw EXCEPT ![n] = RwResources_add_read(@, r),
                           !.last = RwCall("add_read", n, r)]
    /\ UNCHANGED <<allocVars, batchVars, worldVars, storeVars, dropVars, joinVars, sysVars>>

RwAddWrite ==
    /\ \E n \in RwNames, r \in ResourceIds :
          rw' = [rw EXCEPT ![n] = RwResources_add_write(@, r),
                           !.last = RwCall("add_write", n, r),
                           !.written[n] = @ \cup {r}]
    /\ UNCHANGED <<allocVars, batchVars, worldVars, storeVars, dropVars, joinVars, sysVars>>

\* n.union(&other)
RwUnion ==
    /\ \E n \in RwNames :
          rw' = [rw EXCEPT ![n] = RwResources_union(@, rw[Other(n)]),
                           !.last = RwCall("union", n, 0)]
    /\ UNCHANGED <<allocVars, batchVars, worldVars, storeVars, dropVars, joinVars, sysVars>>

\* n.conflicts_with(&other)
RwConflictsWith ==
    /\ \E n \in RwNames :
          rw' = [rw EXCEPT !.last =
                    [op |-> "conflicts_with", n |-> n, r |-> 0,
                     ret |-> RwResources_conflicts_with(rw[n], rw[Other(n)])]]
    /\ UNCHANGED <<allocVars, batchVars, worldVars, storeVars, dropVars, joinVars, sysVars>>

NextRw ==
    \/ RwAddRead
    \/ RwAddWrite
    \/ RwUnion
    \/ RwConflictsWith

SpecRw == InitRw /\ [][NextRw]_vars

\* The value a call was made on, before and after the call.
Receiver == rw[rw'.last.n]
ReceiverAfter == rw'[rw'.last.n]

\* C19: add_read(r) changes nothing when r is already a write; add_write(r)
\* removes r from the reads and adds it to the writes; and a resource that
\* add_write was ever called with is a write and is not a read, whatever
\* calls came before and after it.
C19_WriteWins ==
    [][ /\ (rw'.last.op = "add_read" /\ rw'.last.r \in Receiver.writes) =>
              ReceiverAfter = Receiver
        /\ rw'.last.op = "add_write" =>
              /\ ReceiverAfter.reads = Receiver.reads \ {rw'.last.r}
              /\ ReceiverAfter.writes = Receiver.writes \cup {rw'.last.r}
        /\ \A n \in RwNames : \A r \in rw'.written[n] :
              r \in rw'[n].writes /\ r \notin rw'[n].reads
      ]_vars

\* add_read has been called with a resource that add_write was called with
\* before, on a value that reads another resource.
C19_Witness ==
    /\ rw.last.op = "add_read"
    /\ rw.last.r \in rw.written[rw.last.n]
    /\ rw[rw.last.n].reads # {}

\* C20: after a.union(b) the writes of a are the writes of both and the
\* reads of a are the reads of both without the writes of both.
C20_UnionWritesWin ==
    [][ rw'.last.op = "union" =>
            LET other == rw[Other(rw'.last.n)]
                writes == Receiver.writes \cup other.writes
            IN  /\ ReceiverAfter.writes = writes
                /\ ReceiverAfter.reads = (Receiver.reads \cup other.reads) \ writes
      ]_vars

----------------------------------------------------------------------------
(* is_constrained over the mask expressions with up to MaxOps operators     *)

MaxOps == 2          \* the number of Not, And, Or and Xor in an expression

MaskLeaves == {BitSet({}), BitSet({0}), AtomicBitSet({0}), BitSetAll}

\* The expressions with exactly n operators.
RECURSIVE MaskExprs(_)
MaskExprs(n) ==
    IF n = 0 THEN MaskLeaves
    ELSE { BitSetNot(x) : x \in MaskExprs(n - 1) }
         \cup UNION { UNION { { BitSetAnd(x, y), BitSetOr(x, y), BitSetXor(x, y) } :
                                  x \in MaskExprs(k), y \in MaskExprs(n - 1 - k) } :
                      k \in 0 .. (n - 1) }

InitMask ==
    /\ \E n \in 0 .. MaxOps : \E e \in MaskExprs(n) :
          join = [expr |-> e, constrained |-> None]
    /\ InitAllocator /\ InitBatch /\ NoWorld /\ NoStore /\ NoDrop /\ NoRw /\ NoSys

MaskIsConstrained ==
    /\ join.constrained = None
    /\ join' = [join EXCEPT !.constrained = Some(is_constrained(join.expr))]
    /\ UNCHANGED <<allocVars, batchVars, worldVars, storeVars, dropVars, rwVars, sysVars>>

NextMask ==
    \/ MaskIsConstrained

SpecMask == InitMask /\ [][NextMask]_vars

\* C17: is_constrained of a BitSet or an AtomicBitSet is true and of All
\* false; Not(x) is constrained iff x is not; And(x, y) iff x or y is;
\* Or(x, y) and Xor(x, y) iff both x and y are.
C17_ConstrainedRules ==
    IsSome(join.constrained) =>
        LET e == join.expr
        IN  Unwrap(join.constrained) =
               CASE e.kind \in {"BitSet", "AtomicBitSet"} -> TRUE
                 [] e.kind = "All" -> FALSE
                 [] e.kind = "Not" -> ~is_constrained(e.a)
                 [] e.kind = "And" -> is_constrained(e.a) \/ is_constrained(e.b)
                 [] e.kind \in {"Or", "Xor"} ->
                        is_constrained(e.a) /\ is_constrained(e.b)

\* is_constrained has been evaluated on Or(Not(All), All), which is not
\* constrained although one operand is.
C17_Witness ==
    /\ join.expr = BitSetOr(BitSetNot(BitSetAll), BitSetAll)
    /\ join.constrained = Some(FALSE)

----------------------------------------------------------------------------
(* Parallel joins (join.rs 153-246).  rayon's bridge_unindexed drives a     *)
(* JoinProducer: a worker that holds a producer either splits it in two,    *)
(* for itself and for a worker that steals the second part, or folds it,    *)
(* calling J::get on each index the producer owns.  BitProducer::split of   *)
(* hibitset decides where a producer is cut and whether it is cut at all;   *)
(* here every cut is possible.  The storages are a and b as above.          *)

\* A multiset of items: the function from an item to the times it occurs.
BagAdd(bag, x) ==
    [y \in DOMAIN bag \cup {x} |->
        IF y = x THEN (IF x \in DOMAIN bag THEN bag[x] + 1 ELSE 1) ELSE bag[y]]

RECURSIVE SeqBag(_)
SeqBag(s) == IF s = << >> THEN << >> ELSE BagAdd(SeqBag(Tail(s)), Head(s))

NoPar == [phase |-> "idle", source |-> "none", pending |-> {}, folding |-> {},
          gets |-> [i \in JoinSlots |-> 0], items |-> << >>, splits |-> 0]

ParSources == {"a_b", "a_maybe_b"}

\* JoinParIter::new: Result as a record.
JoinParIter_new(j) ==
    LET o == Join_open(j)
    IN  IF is_constrained(o.mask)
        THEN [ok |-> TRUE, mask |-> o.mask, access |-> o.access]
        ELSE [ok |-> FALSE]

\* drive_unindexed: the one producer bridge_unindexed starts from, over the
\* iterator of the mask.
JoinParIter_drive_unindexed(par) == BitSetLike_iter(par.mask)

\* A split that leaves the index at the cut in both parts.
JoinProducer_split_Overlap(producer, cut) ==
    << SubSeq(producer, 1, cut), SubSeq(producer, cut, Len(producer)) >>

\* JoinProducer::split: the producer of the indices before the cut and the
\* producer of the rest, both over the same access.
JoinProducer_split(producer, cut) ==
    << SubSeq(producer, 1, cut), SubSeq(producer, cut + 1, Len(producer)) >>

\* One step of JoinProducer::fold_with: J::get on the next index of the
\* producer.
JoinProducer_fold_step(producer, access) ==
    LET g == Join_get(access, Head(producer))
    IN  [item     |-> [index |-> Head(producer), rets |-> g.rets, calls |-> g.calls],
         producer |-> Tail(producer)]

ParAccess == Join_open(SourceOf(join.par.source, join.a, join.b)).access

InitPar ==
    /\ join = [a   |-> MaskedStorage_default(VecStorage_default),
               b   |-> MaskedStorage_default(DenseVecStorage_default),
               par |-> NoPar]
    /\ InitAllocator /\ InitBatch /\ NoWorld /\ NoStore /\ NoDrop /\ NoRw /\ NoSys

\* The storages are borrowed by a parallel join until it ends.
ParInsert ==
    /\ join.par.phase # "running"
    /\ \E n \in {"a", "b"}, i \in JoinSlots, v \in Values :
          join' = [join EXCEPT ![n] = MaskedStorage_insert(@, i, v).m,
                               !.par = NoPar]
    /\ UNCHANGED <<allocVars, batchVars, worldVars, storeVars, dropVars, rwVars, sysVars>>

ParRemove ==
    /\ join.par.phase # "running"
    /\ \E n \in {"a", "b"}, i \in JoinSlots :
          join' = [join EXCEPT ![n] = MaskedStorage_remove(@, i).m,
                               !.par = NoPar]
    /\ UNCHANGED <<allocVars, batchVars, worldVars, storeVars, dropVars, rwVars, sysVars>>

\* par_join() and the call that drives it.
ParStart ==
    /\ join.par.phase # "running"
    /\ \E src \in ParSources :
          LET r == JoinParIter_new(SourceOf(src, join.a, join.b))
          IN  join' = [join EXCEPT !.par =
                         IF r.ok
                         THEN [NoPar EXCEPT !.phase = "running",
                                            !.source = src,
                                            !.pending = {JoinParIter_drive_unindexed(r)}]
                         ELSE [NoPar EXCEPT !.phase = "panic", !.source = src]]
    /\ UNCHANGED <<allocVars, batchVars, worldVars, storeVars, dropVars, rwVars, sysVars>>

\* A worker splits a producer it holds; another worker takes the second.
ParSplit ==
    /\ join.par.phase = "running"
    /\ \E p \in join.par.pending : \E cut \in 1 .. (Len(p) - 1) :
          LET two == JoinProducer_split(p, cut)
          IN  join' = [join EXCEPT
                         !.par.pending = (@ \ {p}) \cup {two[1], two[2]},
                         !.par.splits = @ + 1]
    /\ UNCHANGED <<allocVars, batchVars, worldVars, storeVars, dropVars, rwVars, sysVars>>

\* split gave None, or the worker does not split: it folds the producer.
ParFold ==
    /\ join.par.phase = "running"
    /\ \E p \in join.par.pending :
          join' = [join EXCEPT !.par.pending = @ \ {p},
                               !.par.folding = @ \cup {p}]
    /\ UNCHANGED <<allocVars, batchVars, worldVars, storeVars, dropVars, rwVars, sysVars>>

\* A folding worker takes the next index of its producer and calls J::get.
ParGet ==
    /\ join.par.phase = "running"
    /\ \E p \in join.par.folding :
          /\ p # << >>
          /\ LET s == JoinProducer_fold_step(p, ParAccess)
             IN  join' = [join EXCEPT
                            !.par.folding = (@ \ {p}) \cup {s.producer},
                            !.par.gets[s.item.index] = @ + 1,
                            !.par.items = BagAdd(@, s.item)]
    /\ UNCHANGED <<allocVars, batchVars, worldVars, storeVars, dropVars, rwVars, sysVars>>

\* Every producer is folded to its end: the consumer has all the items.
ParEnd ==
    /\ join.par.phase = "running"
    /\ join.par.pending = {}
    /\ join.par.folding \subseteq { << >> }
    /\ join' = [join EXCEPT !.par.phase = "done", !.par.folding = {}]
    /\ UNCHANGED <<allocVars, batchVars, worldVars, storeVars, dropVars, rwVars, sysVars>>

NextPar ==
    \/ ParInsert
    \/ ParRemove
    \/ ParStart
    \/ ParSplit
    \/ ParFold
    \/ ParGet
    \/ ParEnd

SpecPar == InitPar /\ [][NextPar]_vars

\* The indices the producers of the running join still own.
Owned == UNION { Range(p) : p \in join.par.pending \cup join.par.folding }

\* C15: under every split of the producer and every interleaving of the
\* workers, no index is passed to J::get twice nor is owned by two
\* producers or by a producer after its get; an index outside the final mask
\* is never visited; and when the parallel join ends every index of the mask
\* has had exactly one get and the multiset of items equals that of join()
\* on the same source.
C15_ParJoinOnce ==
    join.par.phase \in {"running", "done"} =>
        LET seq == IntoJoinExt_join(SourceOf(join.par.source, join.a, join.b))
            mask == { seq.items[k].index : k \in DOMAIN seq.items }
        IN  /\ \A i \in JoinSlots : join.par.gets[i] <= 1
            /\ \A i \in JoinSlots : join.par.gets[i] = 1 => i \in mask \ Owned
            /\ Owned \subseteq mask
            /\ \A p, q \in join.par.pending \cup join.par.folding :
                  p # q => Range(p) \cap Range(q) = {}
            /\ join.par.phase = "done" =>
                  /\ \A i \in JoinSlots : join.par.gets[i] = (IF i \in mask THEN 1 ELSE 0)
                  /\ join.par.items = SeqBag(seq.items)

\* A parallel join has ended after its producer was split, with an item
\* from each part.
C15_Witness ==
    /\ join.par.phase = "done"
    /\ join.par.splits >= 1
    /\ \A i \in JoinSlots : join.par.gets[i] = 1

----------------------------------------------------------------------------
(* Systems and their composition (par_seq.rs).  A system is a leaf, with    *)
(* the constant its check_resources returns, or Par or Seq of two systems.  *)
(* Result is a record: Ok(v) or Err(e).                                     *)

Ok(v) == [ok |-> TRUE, v |-> v]
Err(e) == [ok |-> FALSE, e |-> e]

ResourceConflict(type_name) == [type_name |-> type_name]

\* from_iters that drops the reads.
RwResources_from_iters_NoReads(reads, writes) == [reads |-> {}, writes |-> writes]

\* RwResources::from_iters: the reads that are writes too are dropped.
RwResources_from_iters(reads, writes) ==
    [reads |-> { r \in reads : r \notin writes }, writes |-> writes]

SystemNames == {"A", "B", "C"}

Leaf(name) == [kind |-> "Leaf", name |-> name]
Par_new(head, tail) == [kind |-> "Par", head |-> head, tail |-> tail]
Seq_new(head, tail) == [kind |-> "Seq", head |-> head, tail |-> tail]

\* Par::check_resources, given the results of head and tail.
Par_check_resources(self, hr, tr) ==
    IF ~hr.ok THEN hr
    ELSE IF ~tr.ok THEN tr
    ELSE IF RwResources_conflicts_with(hr.v, tr.v)
         THEN Err(ResourceConflict(self))
         ELSE Ok(RwResources_union(hr.v, tr.v))

\* Seq::check_resources, given the results of head and tail.
Seq_check_resources(self, hr, tr) ==
    IF ~hr.ok THEN hr
    ELSE IF ~tr.ok THEN tr
    ELSE Ok(RwResources_union(hr.v, tr.v))

\* System::check_resources of a composition; checks[n] is the constant the
\* leaf n returns.
RECURSIVE System_check_resources(_, _)
System_check_resources(self, checks) ==
    CASE self.kind = "Leaf" -> checks[self.name]
      [] self.kind = "Par" ->
            Par_check_resources(self, System_check_resources(self.head, checks),
                                      System_check_resources(self.tail, checks))
      [] self.kind = "Seq" ->
            Seq_check_resources(self, System_check_resources(self.head, checks),
                                      System_check_resources(self.tail, checks))

\* What a leaf may return: any value from_iters builds, or a conflict found
\* in its own data.
LeafChecks ==
    { Ok(RwResources_from_iters(reads, writes)) :
          reads \in SUBSET ResourceIds, writes \in SUBSET ResourceIds }
        \cup { Err(ResourceConflict("data")) }

Combinators == {"Par", "Seq"}

Combine(op, head, tail) ==
    IF op = "Par" THEN Par_new(head, tail) ELSE Seq_new(head, tail)

\* The compositions of A, B and C: of two of them, and of the three nested
\* to the left and to the right.
Compositions ==
    { Combine(op, Leaf("A"), Leaf("B")) : op \in Combinators }
        \cup { Combine(o2, Combine(o1, Leaf("A"), Leaf("B")), Leaf("C")) :
                  o1 \in Combinators, o2 \in Combinators }
        \cup { Combine(o1, Leaf("A"), Combine(o2, Leaf("B"), Leaf("C"))) :
                  o1 \in Combinators, o2 \in Combinators }

NoCheck == [system |-> Leaf("A"), result |-> None]

InitSys ==
    /\ \E checks \in [SystemNames -> LeafChecks] :
          sys = [checks |-> checks, last |-> NoCheck]
    /\ InitAllocator /\ InitBatch /\ NoWorld /\ NoStore /\ NoDrop /\ NoJoin /\ NoRw

\* check_resources() on a composition of the systems.
SysCheckResources ==
    /\ \E c \in Compositions :
          sys' = [sys EXCEPT !.last =
                     [system |-> c,
                      result |-> Some(System_check_resources(c, sys.checks))]]
    /\ UNCHANGED <<allocVars, batchVars, worldVars, storeVars, dropVars, joinVars, rwVars>>

NextSys ==
    \/ SysCheckResources

SpecSys == InitSys /\ [][NextSys]_vars

Checked(kind) == IsSome(sys.last.result) /\ sys.last.system.kind = kind

HeadResult == System_check_resources(sys.last.system.head, sys.checks)
TailResult == System_check_resources(sys.last.system.tail, sys.checks)
LastResult == Unwrap(sys.last.result)

\* Some resource written by one of x, y is read or written by the other.
Overlap(x, y) ==
    \E r \in ResourceIds :
       \/ r \in x.writes /\ r \in y.reads \cup y.writes
       \/ r \in y.writes /\ r \in x.reads \cup x.writes

\* C22: Par(A, B).check_resources() is an error iff the check of A or of B
\* is, or a resource written by one of them is read or written by the other;
\* otherwise it is the union of the two: its writes are the writes of both
\* and its reads the reads of both that neither writes.
C22_ParCheck ==
    Checked("Par") =>
        /\ ~LastResult.ok <=>
              \/ ~HeadResult.ok
              \/ ~TailResult.ok
              \/ Overlap(HeadResult.v, TailResult.v)
        /\ LastResult.ok =>
              LET writes == HeadResult.v.writes \cup TailResult.v.writes
              IN  /\ LastResult.v.writes = writes
                  /\ LastResult.v.reads =
                        (HeadResult.v.reads \cup TailResult.v.reads) \ writes

\* C23: Seq(A, B).check_resources() fails only when the check of A or of B
\* fails; otherwise its writes are the writes of both and its reads the
\* reads of both that neither writes.
C23_SeqCheck ==
    Checked("Seq") =>
        /\ ~LastResult.ok <=> (~HeadResult.ok \/ ~TailResult.ok)
        /\ LastResult.ok =>
              LET writes == HeadResult.v.writes \cup TailResult.v.writes
              IN  /\ LastResult.v.writes = writes
                  /\ LastResult.v.reads =
                        (HeadResult.v.reads \cup TailResult.v.reads) \ writes

\* The same three systems under the same combinator, nested to the right.
Reassociated ==
    LET c == sys.last.system
    IN  Combine(c.kind, c.head.head, Combine(c.kind, c.head.tail, c.tail))

ReassociatedResult == System_check_resources(Reassociated, sys.checks)

LeavesOk == \A n \in SystemNames : sys.checks[n].ok

\* C29: Par(Par(A, B), C) and Par(A, Par(B, C)) both fail or both succeed,
\* and succeed iff the check of every one of A, B, C succeeds and no two of
\* them conflict; Seq(Seq(A, B), C) and Seq(A, Seq(B, C)) both succeed when
\* the checks of A, B and C do; and in each pair the two nestings return the
\* same reads and the same writes.
C29_Associative ==
    (/\ IsSome(sys.last.result)
     /\ sys.last.system.kind \in Combinators
     /\ sys.last.system.head.kind = sys.last.system.kind) =>
        /\ LastResult.ok <=> ReassociatedResult.ok
        /\ sys.last.system.kind = "Par" =>
              (LastResult.ok <=>
                  /\ LeavesOk
                  /\ \A m, n \in SystemNames :
                        m # n => ~Overlap(sys.checks[m].v, sys.checks[n].v))
        /\ sys.last.system.kind = "Seq" => (LeavesOk => LastResult.ok)
        /\ LastResult.ok =>
              /\ LastResult.v.reads = ReassociatedResult.v.reads
              /\ LastResult.v.writes = ReassociatedResult.v.writes

----------------------------------------------------------------------------
(* Fetchers (fetch_resources.rs, local_resource_set.rs): Read and Write of  *)
(* a resource, FetchNone, and tuples of fetchers.                           *)

MaxTuple == 2        \* the length of the outer tuple

Read(r) == [kind |-> "Read", r |-> r]
Write(r) == [kind |-> "Write", r |-> r]
FetchNone == [kind |-> "FetchNone"]
FetchTuple(elements) == [kind |-> "Tuple", elements |-> elements]

RECURSIVE FetchResources_check_resources(_)

\* The tuple's check without the test against the resources so far.
RECURSIVE FetchTuple_check_resources_NoTest(_, _, _)
FetchTuple_check_resources_NoTest(self, elements, resources) ==
    IF elements = << >> THEN Ok(resources)
    ELSE LET r == FetchResources_check_resources(Head(elements))
         IN  IF ~r.ok THEN r
             ELSE FetchTuple_check_resources_NoTest(
                      self, Tail(elements), RwResources_union(resources, r.v))

\* check_resources of a tuple: the elements in order, each tested against
\* the union of those before it; resources is that union, elements the
\* elements still to come.
RECURSIVE FetchTuple_check_resources(_, _, _)
FetchTuple_check_resources(self, elements, resources) ==
    IF elements = << >> THEN Ok(resources)
    ELSE LET r == FetchResources_check_resources(Head(elements))
         IN  IF ~r.ok THEN r
             ELSE IF RwResources_conflicts_with(resources, r.v)
                  THEN Err(ResourceConflict(self))
                  ELSE FetchTuple_check_resources(
                           self, Tail(elements), RwResources_union(resources, r.v))

FetchResources_check_resources(f) ==
    CASE f.kind = "Read" -> Ok(RwResources_from_iters({f.r}, {}))
      [] f.kind = "Write" -> Ok(RwResources_from_iters({}, {f.r}))
      [] f.kind = "FetchNone" -> Ok(RwResources_new)
      [] f.kind = "Tuple" ->
            FetchTuple_check_resources(f, f.elements, RwResources_new)

ReadsAndWrites == { Read(r) : r \in ResourceIds } \cup { Write(r) : r \in ResourceIds }

\* The elements of the outer tuple: a fetcher or a pair of fetchers.
FetchElements ==
    ReadsAndWrites \cup { FetchNone }
        \cup { FetchTuple(<< x, y >>) : x \in ReadsAndWrites, y \in ReadsAndWrites }

FetchTuples ==
    { FetchTuple(t) : t \in UNION { [1 .. n -> FetchElements] : n \in 1 .. MaxTuple } }

InitFetch ==
    /\ \E t \in FetchTuples : sys = [tuple |-> t, result |-> None]
    /\ InitAllocator /\ InitBatch /\ NoWorld /\ NoStore /\ NoDrop /\ NoJoin /\ NoRw

FetchCheckResources ==
    /\ sys.result = None
    /\ sys' = [sys EXCEPT !.result = Some(FetchResources_check_resources(sys.tuple))]
    /\ UNCHANGED <<allocVars, batchVars, worldVars, storeVars, dropVars, joinVars, rwVars>>

NextFetch ==
    \/ FetchCheckResources

SpecFetch == InitFetch /\ [][NextFetch]_vars

ElementResult(k) == FetchResources_check_resources(sys.tuple.elements[k])

\* C24: check_resources of a tuple is a ResourceConflict iff the check of
\* some element is, or two elements conflict; otherwise its reads are the
\* reads of all elements, its writes the writes of all elements, and no
\* resource is both; a tuple whose elements only read is accepted.
C24_TupleCheck ==
    IsSome(sys.result) =>
        LET result == Unwrap(sys.result)
            ks == DOMAIN sys.tuple.elements
        IN  /\ ~result.ok <=>
                  \/ \E k \in ks : ~ElementResult(k).ok
                  \/ \E j, k \in ks :
                        /\ j < k
                        /\ ElementResult(j).ok /\ ElementResult(k).ok
                        /\ Overlap(ElementResult(j).v, ElementResult(k).v)
            /\ result.ok =>
                  /\ result.v.reads = UNION { ElementResult(k).v.reads : k \in ks }
                  /\ result.v.writes = UNION { ElementResult(k).v.writes : k \in ks }
                  /\ result.v.reads \cap result.v.writes = {}
            /\ (\A k \in ks : ElementResult(k).ok /\ ElementResult(k).v.writes = {})
                  => result.ok

\* The check of ((Read 1, Read 2), Write 1) has returned a conflict.
C24_Witness ==
    /\ sys.tuple = FetchTuple(<< FetchTuple(<< Read(1), Read(2) >>), Write(1) >>)
    /\ sys.result # None
    /\ ~Unwrap(sys.result).ok

\* The check of a tuple that reads one resource twice has succeeded.
C24_WitnessReads ==
    /\ sys.tuple = FetchTuple(<< Read(1), FetchTuple(<< Read(1), Write(2) >>) >>)
    /\ sys.result # None
    /\ Unwrap(sys.result).ok

----------------------------------------------------------------------------
(* Running a composition (par_seq.rs 166-182, 235-243, 337-369).  Every     *)
(* node of the composition is a call of run: not yet made, running, or      *)
(* returned with its result.  A node is named by its path from the root.    *)
(* The error of a leaf is its own; combine is the method of the Error       *)
(* trait, left uninterpreted.                                               *)

Unit == << >>

SystemError(name) == [kind |-> "error", of |-> name]
Error_combine(a, b) == [kind |-> "combine", a |-> a, b |-> b]

Pools == {"SeqPool", "RayonPool"}

Idle == [st |-> "idle"]
Running == [st |-> "running"]
Returned(result) == [st |-> "returned", result |-> result]

\* Par::run that returns the error of head when both fail.
Par_run_FirstError(ra, rb) ==
    CASE ra.ok /\ rb.ok -> Ok(Unit)
      [] ~ra.ok /\ rb.ok -> Err(ra.e)
      [] ra.ok /\ ~rb.ok -> Err(rb.e)
      [] ~ra.ok /\ ~rb.ok -> Err(ra.e)

\* Par::run: the match on the two results that pool.join returns.
Par_run(ra, rb) ==
    CASE ra.ok /\ rb.ok -> Ok(Unit)
      [] ~ra.ok /\ rb.ok -> Err(ra.e)
      [] ra.ok /\ ~rb.ok -> Err(rb.e)
      [] ~ra.ok /\ ~rb.ok -> Err(Error_combine(ra.e, rb.e))

\* A Seq::run that goes on to the tail whatever head returned.
Seq_run_tail_Always(ra) == TRUE

\* Seq::run, self.head.run(..)?: the tail is run iff head returned Ok.
Seq_run_tail(ra) == ra.ok

\* Pool::join: whether b may start given the state of the call of a.
\* SeqPool calls a, then b; rayon::join runs the two in either order or at
\* the same time.
Pool_join(pool, a) ==
    IF pool = "SeqPool" THEN a.st = "returned" ELSE TRUE

\* The system at a path of a composition.
RECURSIVE SystemAt(_, _)
SystemAt(system, path) ==
    IF path = << >> THEN system
    ELSE SystemAt(IF Head(path) = "head" THEN system.head ELSE system.tail, Tail(path))

RECURSIVE PathsOf(_)
PathsOf(system) ==
    IF system.kind = "Leaf" THEN { << >> }
    ELSE { << >> } \cup { << "head" >> \o q : q \in PathsOf(system.head) }
                   \cup { << "tail" >> \o q : q \in PathsOf(system.tail) }

InitRun ==
    /\ \E c \in Compositions, pool \in Pools :
          sys = [system |-> c, pool |-> pool,
                 calls |-> [q \in PathsOf(c) |-> Idle]]
    /\ InitAllocator /\ InitBatch /\ NoWorld /\ NoStore /\ NoDrop /\ NoJoin /\ NoRw

RunStays == UNCHANGED <<allocVars, batchVars, worldVars, storeVars, dropVars, joinVars, rwVars>>

Running_at(q, kind) ==
    /\ q \in DOMAIN sys.calls
    /\ SystemAt(sys.system, q).kind = kind
    /\ sys.calls[q] = Running

\* The caller calls run on the composition.
RunCall ==
    /\ sys.calls[<< >>] = Idle
    /\ sys' = [sys EXCEPT !.calls[<< >>] = Running]
    /\ RunStays

\* A leaf system returns, with Ok or with its error.
RunLeafReturn ==
    /\ \E q \in DOMAIN sys.calls :
          /\ Running_at(q, "Leaf")
          /\ \E r \in { Ok(Unit), Err(SystemError(SystemAt(sys.system, q).name)) } :
                sys' = [sys EXCEPT !.calls[q] = Returned(r)]
    /\ RunStays

\* Seq::run calls head.run.
RunSeqHead ==
    /\ \E q \in DOMAIN sys.calls :
          /\ Running_at(q, "Seq")
          /\ sys.calls[q \o << "head" >>] = Idle
          /\ sys' = [sys EXCEPT !.calls[q \o << "head" >>] = Running]
    /\ RunStays

\* Seq::run, head having returned, calls tail.run.
RunSeqTail ==
    /\ \E q \in DOMAIN sys.calls :
          /\ Running_at(q, "Seq")
          /\ sys.calls[q \o << "head" >>].st = "returned"
          /\ Seq_run_tail(sys.calls[q \o << "head" >>].result)
          /\ sys.calls[q \o << "tail" >>] = Idle
          /\ sys' = [sys EXCEPT !.calls[q \o << "tail" >>] = Running]
    /\ RunStays

\* Seq::run returns: the error of head, or what tail returned.
RunSeqReturn ==
    /\ \E q \in DOMAIN sys.calls :
          /\ Running_at(q, "Seq")
          /\ sys.calls[q \o << "head" >>].st = "returned"
          /\ IF Seq_run_tail(sys.calls[q \o << "head" >>].result)
             THEN /\ sys.calls[q \o << "tail" >>].st = "returned"
                  /\ sys' = [sys EXCEPT !.calls[q] = sys.calls[q \o << "tail" >>]]
             ELSE sys' = [sys EXCEPT !.calls[q] = sys.calls[q \o << "head" >>]]
    /\ RunStays

\* pool.join starts the closure that runs head.
RunParHead ==
    /\ \E q \in DOMAIN sys.calls :
          /\ Running_at(q, "Par")
          /\ sys.calls[q \o << "head" >>] = Idle
          /\ sys' = [sys EXCEPT !.calls[q \o << "head" >>] = Running]
    /\ RunStays

\* pool.join starts the closure that runs tail.
RunParTail ==
    /\ \E q \in DOMAIN sys.calls :
          /\ Running_at(q, "Par")
          /\ Pool_join(sys.pool, sys.calls[q \o << "head" >>])
          /\ sys.calls[q \o << "tail" >>] = Idle
          /\ sys' = [sys EXCEPT !.calls[q \o << "tail" >>] = Running]
    /\ RunStays

\* pool.join has both results and Par::run returns.
RunParReturn ==
    /\ \E q \in DOMAIN sys.calls :
          /\ Running_at(q, "Par")
          /\ sys.calls[q \o << "head" >>].st = "returned"
          /\ sys.calls[q \o << "tail" >>].st = "returned"
          /\ sys' = [sys EXCEPT !.calls[q] =
                        Returned(Par_run(sys.calls[q \o << "head" >>].result,
                                         sys.calls[q \o << "tail" >>].result))]
    /\ RunStays

NextRun ==
    \/ RunCall
    \/ RunLeafReturn
    \/ RunSeqHead
    \/ RunSeqTail
    \/ RunSeqReturn
    \/ RunParHead
    \/ RunParTail
    \/ RunParReturn

SpecRun == InitRun /\ [][NextRun]_vars

\* The calls of the composition that are calls of a Par, of a Seq.
CallsOf(kind) == { q \in DOMAIN sys.calls : SystemAt(sys.system, q).kind = kind }

HeadCall(q) == sys.calls[q \o << "head" >>]
TailCall(q) == sys.calls[q \o << "tail" >>]

\* The calls of the leaves below a call.
LeavesBelow(q) ==
    { l \in CallsOf("Leaf") : Len(l) >= Len(q) /\ SubSeq(l, 1, Len(q)) = q }

\* C25: when Par(head, tail).run has returned, under either pool, both
\* head.run and tail.run have returned, whatever they returned; the result
\* is Ok iff both are Ok, the one error when one of them failed, and
\* head_error.combine(tail_error) when both failed.
C25_ParRun ==
    \A q \in CallsOf("Par") :
        sys.calls[q].st = "returned" =>
            /\ HeadCall(q).st = "returned"
            /\ TailCall(q).st = "returned"
            /\ LET ra == HeadCall(q).result
                   rb == TailCall(q).result
                   r == sys.calls[q].result
               IN  /\ r.ok <=> (ra.ok /\ rb.ok)
                   /\ (~ra.ok /\ rb.ok) => r = ra
                   /\ (ra.ok /\ ~rb.ok) => r = rb
                   /\ (~ra.ok /\ ~rb.ok) => r = Err(Error_combine(ra.e, rb.e))

\* Par(A, B) has returned the combined error of A and B on the rayon pool.
C25_Witness ==
    /\ sys.system = Par_new(Leaf("A"), Leaf("B"))
    /\ sys.pool = "RayonPool"
    /\ sys.calls[<< >>] =
          Returned(Err(Error_combine(SystemError("A"), SystemError("B"))))

\* C26: in Seq(head, tail).run the tail is called only after head has
\* returned Ok, so that no system below tail is called before every system
\* below head has returned; when head returns an error the tail is not
\* called and Seq returns that error; otherwise Seq returns what tail
\* returned.
C26_SeqRun ==
    \A q \in CallsOf("Seq") :
        /\ TailCall(q) # Idle =>
              /\ HeadCall(q).st = "returned"
              /\ HeadCall(q).result.ok
        /\ (\E t \in LeavesBelow(q \o << "tail" >>) : sys.calls[t] # Idle) =>
              \A h \in LeavesBelow(q \o << "head" >>) : sys.calls[h].st = "returned"
        /\ sys.calls[q].st = "returned" =>
              /\ HeadCall(q).st = "returned"
              /\ IF HeadCall(q).result.ok
                 THEN sys.calls[q] = TailCall(q)
                 ELSE /\ sys.calls[q] = HeadCall(q)
                      /\ \A t \in LeavesBelow(q \o << "tail" >>) : sys.calls[t] = Idle

\* Seq(Par(A, B), C) has returned the error of B, with A returned Ok and C
\* never called.
C26_Witness ==
    /\ sys.system = Seq_new(Par_new(Leaf("A"), Leaf("B")), Leaf("C"))
    /\ sys.calls[<< >>] = Returned(Err(SystemError("B")))
    /\ sys.calls[<< "head", "head" >>] = Returned(Ok(Unit))
    /\ sys.calls[<< "tail" >>] = Idle

\* In Seq(A, Par(B, C)) A has returned Ok and B is running.
C26_WitnessTail ==
    /\ sys.system = Seq_new(Leaf("A"), Par_new(Leaf("B"), Leaf("C")))
    /\ sys.calls[<< "tail", "head" >>] = Running
    /\ sys.calls[<< "head" >>] = Returned(Ok(Unit))

----------------------------------------------------------------------------
(* The allocator again, with the history of the entities that were born    *)
(* and killed atomically in one batch: sys.both holds those the last        *)
(* merge_atomic handled, until their index is allocated again, and          *)
(* sys.reborn the allocation that has just reused the index of one.         *)

LifeMaxIndex == 2    \* index_len never grows beyond this
LifeMaxGen == 2      \* no generation is raised beyond this

\* The histories are kept for Entities: no index or generation outside it.
LifeIndexLimit == IF LifeMaxIndex < MaxIndex THEN LifeMaxIndex ELSE MaxIndex
LifeGenLimit == IF LifeMaxGen < MaxGen THEN LifeMaxGen ELSE MaxGen

LifeStays == UNCHANGED <<batchVars, worldVars, storeVars, dropVars, joinVars, rwVars>>

InitLife ==
    /\ InitAllocator /\ InitBatch /\ NoWorld /\ NoStore /\ NoDrop /\ NoJoin /\ NoRw
    /\ sys = [both |-> {}, reborn |-> None]

\* The entities allocated atomically since the last merge that an atomic
\* kill is pending for.
BornAndKilled(a) ==
    { Unwrap(Allocator_entity(a, i)) : i \in a.raised_atomic \cap a.killed_atomic }

LifeAllocated(op, r) ==
    /\ Allocated(op, r)
    /\ sys' = [both   |-> { e \in sys.both : e.index # r.e.index },
               reborn |-> IF \E e \in sys.both : e.index = r.e.index
                          THEN Some([old |-> CHOOSE e \in sys.both : e.index = r.e.index,
                                     new |-> r.e])
                          ELSE None]
    /\ LifeStays

LifeAllocate ==
    /\ CanAllocate(allocator, LifeIndexLimit, LifeGenLimit)
    /\ LifeAllocated("allocate", Allocator_allocate(allocator, MAX_INDEX))

LifeAllocateAtomic ==
    /\ CanAllocate(allocator, LifeIndexLimit, LifeGenLimit)
    /\ LifeAllocated("allocate_atomic", Allocator_allocate_atomic(allocator, MAX_INDEX))

LifeKill ==
    \E e \in Entities :
        LET r == Allocator_kill(allocator, e)
        IN  /\ allocator' = r.a
            /\ last' = Call("kill", IF r.ok THEN e ELSE NoEntity, r.ok, << >>)
            /\ pending' = IF r.ok THEN [pending EXCEPT ![e] = 0] ELSE pending
            /\ freed' = IF r.ok THEN Append(freed, e.index) ELSE freed
            /\ reaped' = NoneCounted
            /\ sys' = [sys EXCEPT !.reborn = None]
            /\ UNCHANGED <<issued, lastGen>>
            /\ LifeStays

LifeKillAtomic ==
    \E e \in Entities :
        LET r == Allocator_kill_atomic(allocator, e)
        IN  /\ allocator' = r.a
            /\ last' = Call("kill_atomic", IF r.ok THEN e ELSE NoEntity, r.ok, << >>)
            /\ pending' = IF r.ok THEN Bump(pending, e) ELSE pending
            /\ reaped' = NoneCounted
            /\ sys' = [sys EXCEPT !.reborn = None]
            /\ UNCHANGED <<issued, freed, lastGen>>
            /\ LifeStays

LifeMergeAtomic ==
    \E out \in OutVectors :
        LET r == Allocator_merge_atomic(allocator, out)
        IN  /\ allocator' = r.a
            /\ last' = Call("merge_atomic", NoEntity, ~r.panic, r.killed)
            /\ reaped' = pending
            /\ pending' = NoneCounted
            /\ freed' = freed \o [k \in 1 .. Len(r.killed) |-> r.killed[k].index]
            /\ sys' = [both |-> BornAndKilled(allocator), reborn |-> None]
            /\ UNCHANGED <<issued, lastGen>>
            /\ LifeStays

NextLife ==
    \/ LifeAllocate
    \/ LifeAllocateAtomic
    \/ LifeKill
    \/ LifeKillAtomic
    \/ LifeMergeAtomic

SpecLife == InitLife /\ [][NextLife]_vars

\* The indices of the free cache, those below its length.
CachedIndexes(a) == SubSeq(a.cache.cache, 1, a.cache.len)

Occurrences(seq, x) == Cardinality({ k \in DOMAIN seq : seq[k] = x })

\* C30: an entity allocated with allocate_atomic and killed with
\* kill_atomic before the next merge_atomic is dead after that merge, is
\* reported in out once, its index is in the free cache once, and the
\* generation stored for its index has gone through birth and death: the
\* next entity allocated at the index has the generation of the entity plus
\* one.
C30_BornAndKilled ==
    /\ last.op = "merge_atomic" =>
          \A e \in sys.both :
              /\ last.ok
              /\ ~Allocator_is_alive(allocator, e)
              /\ e.index \notin Allocator_live_bitset(allocator)
              /\ Occurrences(last.out, e) = 1
              /\ Occurrences(CachedIndexes(allocator), e.index) = 1
              /\ Allocator_generation(allocator, e.index) = 0 - e.generation
    /\ IsSome(sys.reborn) =>
          /\ Unwrap(sys.reborn).new.index = Unwrap(sys.reborn).old.index
          /\ Unwrap(sys.reborn).new.generation = Unwrap(sys.reborn).old.generation + 1

\* A merge has just handled an entity that was allocated and killed
\* atomically in the batch, on an index that was used before.
C30_Witness ==
    /\ last.op = "merge_atomic"
    /\ \E e \in sys.both : e.generation = 2

\* The index of such an entity has been allocated again.
C30_WitnessReborn ==
    /\ IsSome(sys.reborn)
    /\ last.op = "allocate_atomic"

----------------------------------------------------------------------------
(* auto_schedule.  The list is walked in order with the union P of the      *)
(* resources of the current group: a system that conflicts with P closes    *)
(* the group and starts the next one, any other system joins the group and  *)
(* P.  The result is the Seq of the groups, each a Par of its systems.  A   *)
(* system of the list is given by the resources its check returns; a group  *)
(* is the sequence of the positions of its systems in the list.             *)

MaxList == 4         \* the length of the list of systems

\* The resources of a system of the list: none, or one read or one write.
Declarations ==
    { RwResources_new }
        \cup { RwResources_add_read(RwResources_new, r) : r \in ResourceIds }
        \cup { RwResources_add_write(RwResources_new, r) : r \in ResourceIds }

\* The walk from position k on: groups are the closed groups, current the
\* open one and P the union of its resources.
RECURSIVE auto_schedule_walk(_, _, _, _, _)
auto_schedule_walk(list, k, groups, current, P) ==
    IF k > Len(list) THEN Append(groups, current)
    ELSE IF RwResources_conflicts_with(P, list[k])
         THEN auto_schedule_walk(list, k + 1, Append(groups, current), << k >>, list[k])
         ELSE auto_schedule_walk(list, k + 1, groups, Append(current, k),
                                 RwResources_union(P, list[k]))

auto_schedule(list) ==
    auto_schedule_walk(list, 2, << >>, << 1 >>, RwResources_union(RwResources_new, list[1]))

InitSchedule ==
    /\ \E n \in 1 .. MaxList : \E list \in [1 .. n -> Declarations] :
          sys = [list |-> list, groups |-> None]
    /\ InitAllocator /\ InitBatch /\ NoWorld /\ NoStore /\ NoDrop /\ NoJoin /\ NoRw

AutoSchedule ==
    /\ sys.groups = None
    /\ sys' = [sys EXCEPT !.groups = Some(auto_schedule(sys.list))]
    /\ UNCHANGED <<allocVars, batchVars, worldVars, storeVars, dropVars, joinVars, rwVars>>

NextSchedule ==
    \/ AutoSchedule

SpecSchedule == InitSchedule /\ [][NextSchedule]_vars

RECURSIVE Flatten(_)
Flatten(groups) ==
    IF groups = << >> THEN << >> ELSE Head(groups) \o Flatten(Tail(groups))

Groups == Unwrap(sys.groups)

\* The group a position of the list is in.
GroupOf(k) == CHOOSE g \in DOMAIN Groups : k \in Range(Groups[g])

\* C27: the groups of auto_schedule, one after the other, are the list in
\* its order; no two systems of a group conflict; so two systems that
\* conflict are in different groups, the earlier one in the earlier group.
C27_ScheduleKeepsOrder ==
    IsSome(sys.groups) =>
        /\ Flatten(Groups) = [k \in 1 .. Len(sys.list) |-> k]
        /\ \A g \in DOMAIN Groups : Groups[g] # << >>
        /\ \A g \in DOMAIN Groups : \A i, j \in Range(Groups[g]) :
              i # j => ~Overlap(sys.list[i], sys.list[j])
        /\ \A i, j \in DOMAIN sys.list :
              (i < j /\ Overlap(sys.list[i], sys.list[j])) => GroupOf(i) < GroupOf(j)

\* A list of four systems has been scheduled in two groups of two, the
\* last system reading what the first writes.
C27_Witness ==
    /\ sys.groups = Some(<< << 1, 2 >>, << 3, 4 >> >>)
    /\ Overlap(sys.list[1], sys.list[4])
    /\ sys.list[4].reads # {}

\* C28: the first system opens the first group; every later system opens a
\* new group exactly when it conflicts with a system that is in the current
\* group by then (with the union of their resources), and joins the current
\* group otherwise.
C28_GreedyGroups ==
    IsSome(sys.groups) =>
        /\ Groups[1][1] = 1
        /\ \A k \in 2 .. Len(sys.list) :
              LET current == { j \in Range(Groups[GroupOf(k - 1)]) : j < k }
              IN  (Groups[GroupOf(k)][1] = k) <=>
                      \E j \in current : Overlap(sys.list[j], sys.list[k])

\* [A(w:r1), B(w:r2), C(w:r2), D(r:r2)] has been grouped as
\* [[A, B], [C], [D]]: C conflicts with B, D with C.
C28_Witness ==
    /\ sys.list = << RwResources_add_write(RwResources_new, 1),
                     RwResources_add_write(RwResources_new, 2),
                     RwResources_add_write(RwResources_new, 2),
                     RwResources_add_read(RwResources_new, 2) >>
    /\ sys.groups = Some(<< << 1, 2 >>, << 3 >>, << 4 >> >>)

----------------------------------------------------------------------------
(* The exclusive kill of an entity that an atomic call is pending for: an   *)
(* entity allocated atomically and not merged yet, or an entity with a      *)
(* pending kill_atomic.  sys keeps the history:                             *)
(*   committed  the entities kill took out of raised_atomic, until their    *)
(*              index is allocated again;                                   *)
(*   cancelled  the entities kill took out of killed_atomic since the last  *)
(*              merge;                                                      *)
(*   reused     the live entities allocated since on the index of a         *)
(*              cancelled one;                                              *)
(*   reborn     the last allocation, when it took the index of a committed  *)
(*              entity.                                                     *)

NowMaxIndex == 1     \* index_len never grows beyond this
NowMaxGen == 2       \* no generation is raised beyond this

\* The histories are kept for Entities: no index or generation outside it.
NowIndexLimit == IF NowMaxIndex < MaxIndex THEN NowMaxIndex ELSE MaxIndex
NowGenLimit == IF NowMaxGen < MaxGen THEN NowMaxGen ELSE MaxGen

NowStays == UNCHANGED <<batchVars, worldVars, storeVars, dropVars, joinVars, rwVars>>

InitNow ==
    /\ InitAllocator /\ InitBatch /\ NoWorld /\ NoStore /\ NoDrop /\ NoJoin /\ NoRw
    /\ sys = [committed |-> {}, cancelled |-> {}, reused |-> {}, reborn |-> None]

\* cancelled and reused are of one batch: they start again after a merge.
Cancelled == IF last.op = "merge_atomic" THEN {} ELSE sys.cancelled
Reused == IF last.op = "merge_atomic" THEN {} ELSE sys.reused

NowAllocated(op, r) ==
    /\ Allocated(op, r)
    /\ sys' = [committed |-> { e \in sys.committed : e.index # r.e.index },
               cancelled |-> Cancelled,
               reused    |-> IF \E e \in Cancelled : e.index = r.e.index
                             THEN Reused \cup {r.e} ELSE Reused,
               reborn    |-> IF \E e \in sys.committed : e.index = r.e.index
                             THEN Some([old |-> CHOOSE e \in sys.committed :
                                                    e.index = r.e.index,
                                        new |-> r.e])
                             ELSE None]
    /\ NowStays

NowAllocate ==
    /\ CanAllocate(allocator, NowIndexLimit, NowGenLimit)
    /\ NowAllocated("allocate", Allocator_allocate(allocator, MAX_INDEX))

NowAllocateAtomic ==
    /\ CanAllocate(allocator, NowIndexLimit, NowGenLimit)
    /\ NowAllocated("allocate_atomic", Allocator_allocate_atomic(allocator, MAX_INDEX))

NowKill ==
    \E e \in Entities :
        LET r == Allocator_kill(allocator, e)
        IN  /\ allocator' = r.a
            /\ last' = Call("kill", IF r.ok THEN e ELSE NoEntity, r.ok, << >>)
            /\ pending' = IF r.ok THEN [pending EXCEPT ![e] = 0] ELSE pending
            /\ freed' = IF r.ok THEN Append(freed, e.index) ELSE freed
            /\ reaped' = NoneCounted
            /\ sys' = [committed |-> IF r.ok /\ e.index \in allocator.raised_atomic
                                     THEN sys.committed \cup {e} ELSE sys.committed,
                       cancelled |-> IF r.ok /\ e.index \in allocator.killed_atomic
                                     THEN Cancelled \cup {e} ELSE Cancelled,
                       reused    |-> IF r.ok THEN Reused \ {e} ELSE Reused,
                       reborn    |-> None]
            /\ UNCHANGED <<issued, lastGen>>
            /\ NowStays

NowKillAtomic ==
    \E e \in Entities :
        LET r == Allocator_kill_atomic(allocator, e)
        IN  /\ allocator' = r.a
            /\ last' = Call("kill_atomic", IF r.ok THEN e ELSE NoEntity, r.ok, << >>)
            /\ pending' = IF r.ok THEN Bump(pending, e) ELSE pending
            /\ reaped' = NoneCounted
            /\ sys' = [sys EXCEPT !.cancelled = Cancelled,
                                  !.reused = IF r.ok THEN Reused \ {e} ELSE Reused,
                                  !.reborn = None]
            /\ UNCHANGED <<issued, freed, lastGen>>
            /\ NowStays

NowMergeAtomic ==
    \E out \in OutVectors :
        LET r == Allocator_merge_atomic(allocator, out)
        IN  /\ allocator' = r.a
            /\ last' = Call("merge_atomic", NoEntity, ~r.panic, r.killed)
            /\ reaped' = pending
            /\ pending' = NoneCounted
            /\ freed' = freed \o [k \in 1 .. Len(r.killed) |-> r.killed[k].index]
            /\ sys' = [sys EXCEPT !.cancelled = Cancelled,
                                  !.reused = Reused,
                                  !.reborn = None]
            /\ UNCHANGED <<issued, lastGen>>
            /\ NowStays

NextNow ==
    \/ NowAllocate
    \/ NowAllocateAtomic
    \/ NowKill
    \/ NowKillAtomic
    \/ NowMergeAtomic

SpecNow == InitNow /\ [][NextNow]_vars

\* C31: an entity that allocate_atomic returned and the exclusive kill
\* killed before a merge is dead from the kill on: its index is in none of
\* alive, raised_atomic and killed_atomic because of it, the stored
\* generation is the dead form of its generation, its index is in the free
\* cache once, no merge reports it or makes it alive, and the next entity
\* allocated at the index has its generation plus one.
C31_KillCommitsRaise ==
    /\ \A e \in sys.committed :
          /\ ~Allocator_is_alive(allocator, e)
          /\ e.index \notin Allocator_live_bitset(allocator)
          /\ e.index \notin allocator.killed_atomic
          /\ Allocator_generation(allocator, e.index) = 0 - e.generation
          /\ Occurrences(CachedIndexes(allocator), e.index) = 1
          /\ last.op = "merge_atomic" => last.ok /\ e \notin Range(last.out)
    /\ IsSome(sys.reborn) =>
          /\ Unwrap(sys.reborn).new.index = Unwrap(sys.reborn).old.index
          /\ Unwrap(sys.reborn).new.generation = Unwrap(sys.reborn).old.generation + 1

\* The exclusive kill has just killed an entity that allocate_atomic had
\* taken from the free cache.
C31_Witness ==
    /\ last.op = "kill"
    /\ last.e \in sys.committed
    /\ last.e.generation = 2

\* A merge has run after such a kill.
C31_WitnessMerge ==
    /\ last.op = "merge_atomic"
    /\ sys.committed # {}

\* The index of such an entity has been allocated again.
C31_WitnessReborn ==
    /\ IsSome(sys.reborn)

\* C32: an entity with a pending kill_atomic that the exclusive kill killed
\* before the merge is not reported by that merge, and an entity allocated
\* after the kill on its index (and not killed itself) is alive after the
\* merge and not reported.
C32_KillCancelsPending ==
    last.op = "merge_atomic" =>
        /\ last.ok
        /\ \A e \in sys.cancelled : e \notin Range(last.out)
        /\ \A n \in sys.reused :
              /\ Allocator_is_alive(allocator, n)
              /\ n \notin Range(last.out)

\* A merge has run after kill_atomic(e), kill(e) and an allocation that took
\* the index of e.
C32_Witness ==
    /\ last.op = "merge_atomic"
    /\ \E e \in sys.cancelled : \E n \in sys.reused : n.index = e.index

----------------------------------------------------------------------------
(* The invariants of the allocator between its calls, checked under Spec *)

\* C33: between the calls, no index is in both alive and raised_atomic, and
\* an index is in alive exactly when the generation stored for it is
\* positive.
C33_AliveOrRaised ==
    /\ allocator.alive \cap allocator.raised_atomic = {}
    /\ \A i \in 0 .. (MAX_INDEX - 1) :
          i \in allocator.alive <=>
              Generation_is_alive(Allocator_generation(allocator, i))

\* allocate has taken an index from the free cache right after
\* allocate_atomic took one: one index is alive, the other raised.
C33_Witness ==
    /\ last.op = "allocate"
    /\ last.e.generation = 2
    /\ \E i \in allocator.raised_atomic : Allocator_generation(allocator, i) < 0

\* C34: between the calls, every index of killed_atomic is in alive or in
\* raised_atomic; the unwrap of to_alive() in merge_atomic never fails, and
\* every entity it reports was alive when the merge began.
C34_KilledIsLive ==
    /\ allocator.killed_atomic \subseteq Allocator_live_bitset(allocator)
    /\ last.op = "merge_atomic" =>
          /\ last.ok
          /\ \A e \in Range(last.out) : reaped[e] > 0

\* Atomic kills are pending for an index of alive and for an index that is
\* only in raised_atomic.
C34_Witness ==
    /\ allocator.killed_atomic \cap allocator.alive # {}
    /\ allocator.killed_atomic \cap allocator.raised_atomic # {}

\* A merge has killed two entities.
C34_WitnessMerge ==
    /\ last.op = "merge_atomic"
    /\ Len(last.out) = 2

\* C35: between the calls, every index among the first len entries of the
\* cache vector is dead (its stored generation is not positive and it is in
\* neither alive nor raised_atomic), and none of them occurs twice.
C35_CacheIsDead ==
    \A k \in 1 .. allocator.cache.len :
        LET i == allocator.cache.cache[k]
        IN  /\ k <= Len(allocator.cache.cache)
            /\ Allocator_generation(allocator, i) <= 0
            /\ i \notin allocator.alive
            /\ i \notin allocator.raised_atomic
            /\ \A j \in 1 .. allocator.cache.len : j # k => allocator.cache.cache[j] # i

\* The cache vector holds two indices, the upper one handed out by
\* allocate_atomic and the lower one still free.
C35_Witness ==
    /\ allocator.cache.len = 1
    /\ Len(allocator.cache.cache) = 2
    /\ allocator.cache.cache[2] \in allocator.raised_atomic

----------------------------------------------------------------------------
(* allocate_atomic called by several threads at once (entity.rs:172-179).   *)
(* A step of a thread is one access to the shared memory: a load, or a      *)
(* compare_exchange_weak of the loops of atomic_decrement and               *)
(* atomic_increment (entity.rs:371-397), or the add_atomic of the bit.  No  *)
(* exclusive call runs meanwhile, so the cache vector and the generations   *)
(* do not change.  sys holds the allocator a, the allocator begun as it    *)
(* was at the start, the slots and the fresh indices handed out, whether a  *)
(* compare_exchange failed, and per thread its place pc, the value prev its *)
(* loop holds, its index and the entity e it returned.                      *)

CasThreads == 2      \* the number of threads in allocate_atomic
CasMaxCache == 2     \* the length of the free cache when they start

Threads == 1 .. CasThreads

\* A compare_exchange that stores without comparing.
compare_exchange_weak_Blind(current, expected, new) ==
    [ok |-> TRUE, x |-> expected, val |-> new]

\* compare_exchange_weak on a cell that holds current: Ok(previous value)
\* and the new value stored, or Err(value found) and the cell as it was.  A
\* spurious failure returns Err(expected) and leaves thread and cell as
\* they were.
compare_exchange_weak(current, expected, new) ==
    IF current = expected
    THEN [ok |-> TRUE, x |-> current, val |-> new]
    ELSE [ok |-> FALSE, x |-> current, val |-> current]

\* The sequences of up to n different elements of S.
RECURSIVE DistinctSeqs(_, _)
DistinctSeqs(S, n) ==
    IF n = 0 THEN { << >> }
    ELSE LET shorter == DistinctSeqs(S, n - 1)
         IN  shorter \cup UNION { { Append(s, x) : x \in S \ Range(s) } : s \in shorter }

\* An allocator between two exclusive calls: index_len indices were
\* allocated, those of the cache were killed once and the others are alive.
CasAllocator(index_len, cache) ==
    [generations   |-> [k \in 1 .. index_len |->
                            IF (k - 1) \in Range(cache) THEN 0 - 1 ELSE 1],
     alive         |-> (0 .. (index_len - 1)) \ Range(cache),
     raised_atomic |-> {},
     killed_atomic |-> {},
     cache         |-> [cache |-> cache, len |-> Len(cache)],
     index_len     |-> index_len]

CasStays ==
    UNCHANGED <<allocVars, batchVars, worldVars, storeVars, dropVars, joinVars, rwVars>>

InitCas ==
    /\ InitAllocator /\ InitBatch /\ NoWorld /\ NoStore /\ NoDrop /\ NoJoin /\ NoRw
    /\ \E index_len \in 0 .. MAX_INDEX :
       \E cache \in DistinctSeqs({ i \in 0 .. (CasMaxCache - 1) : i < index_len },
                                 CasMaxCache) :
          sys = [a      |-> CasAllocator(index_len, cache),
                 begun  |-> CasAllocator(index_len, cache),
                 slots  |-> << >>,
                 fresh  |-> << >>,
                 failed |-> FALSE,
                 pc     |-> [t \in Threads |-> "idle"],
                 prev   |-> [t \in Threads |-> 0],
                 index  |-> [t \in Threads |-> 0],
                 e      |-> [t \in Threads |-> None]]

\* allocate_atomic is called: atomic_decrement loads the length of the cache.
CasLoadLen(t) ==
    /\ sys.pc[t] = "idle"
    /\ sys' = [sys EXCEPT !.pc[t] = "decrement", !.prev[t] = sys.a.cache.len]
    /\ CasStays

\* A round of the loop of atomic_decrement; on Ok(x) pop_atomic reads
\* cache[x - 1].
CasDecrement(t) ==
    /\ sys.pc[t] = "decrement"
    /\ sys.prev[t] # 0
    /\ LET r == compare_exchange_weak(sys.a.cache.len, sys.prev[t], sys.prev[t] - 1)
       IN  sys' = IF r.ok
                  THEN [sys EXCEPT !.a.cache.len = r.val,
                                   !.pc[t] = "add",
                                   !.index[t] = sys.a.cache.cache[(r.x - 1) + 1],
                                   !.slots = Append(@, r.x - 1)]
                  ELSE [sys EXCEPT !.prev[t] = r.x, !.failed = TRUE]
    /\ CasStays

\* The loop of atomic_decrement ends at 0 with None, and atomic_increment
\* loads index_len.
CasLoadIndexLen(t) ==
    /\ sys.pc[t] = "decrement"
    /\ sys.prev[t] = 0
    /\ sys' = [sys EXCEPT !.pc[t] = "increment", !.prev[t] = sys.a.index_len]
    /\ CasStays

\* A round of the loop of atomic_increment.
CasIncrement(t) ==
    /\ sys.pc[t] = "increment"
    /\ sys.prev[t] # MAX_INDEX
    /\ LET r == compare_exchange_weak(sys.a.index_len, sys.prev[t], sys.prev[t] + 1)
       IN  sys' = IF r.ok
                  THEN [sys EXCEPT !.a.index_len = r.val,
                                   !.pc[t] = "add",
                                   !.index[t] = r.x,
                                   !.fresh = Append(@, r.x)]
                  ELSE [sys EXCEPT !.prev[t] = r.x, !.failed = TRUE]
    /\ CasStays

\* The loop of atomic_increment ends at MAX_INDEX with None: expect panics.
CasPanic(t) ==
    /\ sys.pc[t] = "increment"
    /\ sys.prev[t] = MAX_INDEX
    /\ sys' = [sys EXCEPT !.pc[t] = "panic"]
    /\ CasStays

\* raised_atomic.add_atomic(index), and the entity is returned.
CasAddRaised(t) ==
    /\ sys.pc[t] = "add"
    /\ sys' = [sys EXCEPT
                 !.a.raised_atomic = @ \cup {sys.index[t]},
                 !.pc[t] = "done",
                 !.e[t] = Some(Entity_new(sys.index[t],
                              Generation_raised(Allocator_generation(sys.a, sys.index[t]))))]
    /\ CasStays

NextCas ==
    \/ \E t \in Threads : CasLoadLen(t)
    \/ \E t \in Threads : CasDecrement(t)
    \/ \E t \in Threads : CasLoadIndexLen(t)
    \/ \E t \in Threads : CasIncrement(t)
    \/ \E t \in Threads : CasPanic(t)
    \/ \E t \in Threads : CasAddRaised(t)

SpecCas == InitCas /\ [][NextCas]_vars

\* The threads that hold an index: by a successful compare_exchange.
Holding == { t \in Threads : sys.pc[t] \in {"add", "done"} }

\* C36: under every interleaving of the threads in allocate_atomic, no two
\* calls hold or return the same index; no slot of the cache and no fresh
\* index is handed out twice, the slots are those the cache had and the
\* fresh indices those from the former index_len on; index_len never
\* passes MAX_INDEX, and a call panics only with index_len at MAX_INDEX.
C36_AtomicAllocationsDiffer ==
    /\ \A t, u \in Holding : t # u => sys.index[t] # sys.index[u]
    /\ \A t, u \in Threads :
          (t # u /\ IsSome(sys.e[t]) /\ IsSome(sys.e[u])) => sys.e[t] # sys.e[u]
    /\ \A j, k \in DOMAIN sys.slots : j # k => sys.slots[j] # sys.slots[k]
    /\ \A j, k \in DOMAIN sys.fresh : j # k => sys.fresh[j] # sys.fresh[k]
    /\ Range(sys.slots) = sys.a.cache.len .. (sys.begun.cache.len - 1)
    /\ Range(sys.fresh) = sys.begun.index_len .. (sys.a.index_len - 1)
    /\ sys.a.index_len <= MAX_INDEX
    /\ sys.a.index_len >= sys.begun.index_len
    /\ \A t \in Threads : sys.pc[t] = "panic" =>
          sys.a.index_len = MAX_INDEX /\ sys.a.cache.len = 0
    /\ \A t \in Threads : IsSome(sys.e[t]) =>
          /\ Unwrap(sys.e[t]).index \in sys.a.raised_atomic
          /\ Unwrap(sys.e[t]).index \notin sys.a.alive

\* Two calls have returned after a compare_exchange of one of them failed:
\* one took the last slot of the cache, the other a fresh index.
C36_Witness ==
    /\ \A t \in Threads : sys.pc[t] = "done"
    /\ sys.failed
    /\ Len(sys.slots) = 1
    /\ Len(sys.fresh) = 1
    /\ sys.begun.cache.len = 1

\* A call has failed at MAX_INDEX while another took the last index.
C36_WitnessFull ==
    /\ \E t \in Threads : sys.pc[t] = "panic"
    /\ \E t \in Threads : sys.pc[t] = "done" /\ sys.index[t] = MAX_INDEX - 1

----------------------------------------------------------------------------
(* What is_constrained promises, checked under SpecMask *)

\* The indices of the BitSet and AtomicBitSet leaves of a mask expression.
RECURSIVE LeafBits(_)
LeafBits(m) ==
    CASE m.kind \in {"BitSet", "AtomicBitSet"} -> m.bits
      [] m.kind = "All" -> {}
      [] m.kind = "Not" -> LeafBits(m.a)
      [] OTHER -> LeafBits(m.a) \cup LeafBits(m.b)

\* C37: when is_constrained is true of a mask expression, every index the
\* expression contains is an index of one of its BitSet or AtomicBitSet
\* leaves, so the expression denotes a finite set and JoinIter::new lets no
\* mask through that covers the index space.
C37_ConstrainedIsFinite ==
    join.constrained = Some(TRUE) =>
        \A i \in JoinSlots :
            BitSetLike_contains(join.expr, i) => i \in LeafBits(join.expr)

----------------------------------------------------------------------------
(* The dense storage behind the mask, checked under SpecStore *)

\* C38: in a DenseVecStorage, after any inserts at empty indices and
\* removes at occupied indices, values and indexes are as long as there are
\* occupied indices, data[indexes[k]] = k at every position k, and get(i)
\* is the value last put at i for every occupied i.
C38_DenseBackPointers ==
    store.storage.kind = "Dense" =>
        LET s == store.storage
            occupied == { i \in Slots : IsSome(abstract[i]) }
        IN  /\ Len(s.values) = Cardinality(occupied)
            /\ Len(s.indexes) = Cardinality(occupied)
            /\ Range(s.indexes) = occupied
            /\ \A k \in 1 .. Len(s.indexes) :
                  /\ s.indexes[k] < Len(s.data)
                  /\ s.data[s.indexes[k] + 1] = Some(k - 1)
            /\ \A i \in occupied : DenseVecStorage_get(s, i) = {Unwrap(abstract[i])}

\* The first of three values has been removed: the last one took its place.
C38_Witness ==
    /\ store.storage.kind = "Dense"
    /\ slast.op = "remove"
    /\ IsSome(slast.ret)
    /\ Len(store.storage.indexes) = 2
    /\ store.storage.indexes[1] > store.storage.indexes[2]
    /\ abstract[store.storage.indexes[1]] # abstract[store.storage.indexes[2]]

\* The value removed was the last of the vector while others stay.
C38_WitnessLast ==
    /\ store.storage.kind = "Dense"
    /\ slast.op = "remove"
    /\ IsSome(slast.ret)
    /\ Len(store.storage.values) = 2
    /\ store.storage.data[slast.index + 1] = Some(2)

----------------------------------------------------------------------------
(* fetch of a tuple of fetchers from a ResourceSet (local_resource_set.rs). *)
(* Every resource of the set is in a RefCell; Read::fetch borrows its cell, *)
(* Write::fetch borrows it mutably, and the tuple holds all the borrows of  *)
(* its elements.  The World keeps its resources and its components in two   *)
(* such sets and its fetchers borrow one cell of them in the same way       *)
(* (local_world.rs:80-99, 146-174); Entities is a plain reference.          *)

RefCell_new == [readers |-> 0, writer |-> FALSE]

\* RefCell::borrow: panics while the cell is borrowed mutably.
RefCell_borrow(c) ==
    IF c.writer THEN [panic |-> TRUE, c |-> c]
    ELSE [panic |-> FALSE, c |-> [c EXCEPT !.readers = @ + 1]]

\* RefCell::borrow_mut: panics while the cell is borrowed at all.
RefCell_borrow_mut(c) ==
    IF c.writer \/ c.readers > 0 THEN [panic |-> TRUE, c |-> c]
    ELSE [panic |-> FALSE, c |-> [c EXCEPT !.writer = TRUE]]

\* ResourceSet::borrow and borrow_mut: set maps the resources inserted to
\* their cells; a resource that was not inserted is a panic.
ResourceSet_borrow(set, r) ==
    IF r \in DOMAIN set
    THEN LET b == RefCell_borrow(set[r])
         IN  [panic |-> b.panic, set |-> [set EXCEPT ![r] = b.c]]
    ELSE [panic |-> TRUE, set |-> set]

ResourceSet_borrow_mut(set, r) ==
    IF r \in DOMAIN set
    THEN LET b == RefCell_borrow_mut(set[r])
         IN  [panic |-> b.panic, set |-> [set EXCEPT ![r] = b.c]]
    ELSE [panic |-> TRUE, set |-> set]

\* fetch: the elements of a tuple in order, until one panics.
RECURSIVE FetchResources_fetch(_, _)
FetchTuple_fetch(elements, set) ==
    LET first == FetchResources_fetch(elements[1], set)
    IN  IF first.panic \/ Len(elements) = 1 THEN first
        ELSE FetchResources_fetch(FetchTuple(Tail(elements)), first.set)

FetchResources_fetch(f, set) ==
    CASE f.kind = "Read" -> ResourceSet_borrow(set, f.r)
      [] f.kind = "Write" -> ResourceSet_borrow_mut(set, f.r)
      [] f.kind = "FetchNone" -> [panic |-> FALSE, set |-> set]
      [] f.kind = "Tuple" -> FetchTuple_fetch(f.elements, set)

\* The sets the tuple is fetched from: all resources, or all but the first.
ResourceSets ==
    { [r \in S |-> RefCell_new] : S \in { ResourceIds, ResourceIds \ {1} } }

InitBorrow ==
    /\ \E t \in FetchTuples, set \in ResourceSets :
          sys = [tuple |-> t, set |-> set, result |-> None, fetched |-> None]
    /\ InitAllocator /\ InitBatch /\ NoWorld /\ NoStore /\ NoDrop /\ NoJoin /\ NoRw

BorrowStays ==
    UNCHANGED <<allocVars, batchVars, worldVars, storeVars, dropVars, joinVars, rwVars>>

BorrowCheckResources ==
    /\ sys.result = None
    /\ sys' = [sys EXCEPT !.result = Some(FetchResources_check_resources(sys.tuple))]
    /\ BorrowStays

BorrowFetch ==
    /\ sys.fetched = None
    /\ sys' = [sys EXCEPT !.fetched = Some(FetchResources_fetch(sys.tuple, sys.set))]
    /\ BorrowStays

NextBorrow ==
    \/ BorrowCheckResources
    \/ BorrowFetch

SpecBorrow == InitBorrow /\ [][NextBorrow]_vars

\* The resources the fetchers of f name.
RECURSIVE Named(_)
Named(f) ==
    CASE f.kind \in {"Read", "Write"} -> {f.r}
      [] f.kind = "FetchNone" -> {}
      [] f.kind = "Tuple" -> UNION { Named(f.elements[k]) : k \in DOMAIN f.elements }

\* C39: when check_resources of a tuple is Ok and every resource it names
\* is in the set, with no borrow taken, fetch of the tuple does not panic:
\* no cell is borrowed mutably while another element holds a borrow of it.
C39_CheckedFetchBorrows ==
    (/\ IsSome(sys.result) /\ Unwrap(sys.result).ok
     /\ IsSome(sys.fetched)
     /\ Named(sys.tuple) \subseteq DOMAIN sys.set) =>
        /\ ~Unwrap(sys.fetched).panic
        /\ \A r \in DOMAIN sys.set :
              LET c == Unwrap(sys.fetched).set[r]
              IN  /\ c.writer => c.readers = 0
                  /\ c.writer <=> r \in Unwrap(sys.result).v.writes
                  /\ c.readers > 0 <=> r \in Unwrap(sys.result).v.reads

\* A tuple that reads one resource twice and writes another has passed the
\* check and has been fetched.
C39_Witness ==
    /\ sys.tuple = FetchTuple(<< Read(1), FetchTuple(<< Read(1), Write(2) >>) >>)
    /\ IsSome(sys.result) /\ Unwrap(sys.result).ok
    /\ IsSome(sys.fetched)
    /\ 1 \in DOMAIN sys.set
    /\ Unwrap(sys.fetched).set[1].readers = 2
    /\ Unwrap(sys.fetched).set[2].writer

\* A tuple the check refuses has been fetched and has hit the panic of the
\* cell.
C39_WitnessRefused ==
    /\ IsSome(sys.result) /\ ~Unwrap(sys.result).ok
    /\ IsSome(sys.fetched) /\ Unwrap(sys.fetched).panic
    /\ Named(sys.tuple) \subseteq DOMAIN sys.set

----------------------------------------------------------------------------
(* The components of a reused index, checked under SpecWorld *)

\* The entities that a step has made alive.
Created ==
    { e \in WorldEntities :
          Allocator_is_alive(world.allocator', e) /\ ~Allocator_is_alive(world.allocator, e) }

\* C40: the entity create_entity or Entities::create returns has no
\* component in the storage: a component never outlives its entity, so no
\* index that can be allocated holds one.
C40_CreatedHasNoComponent ==
    [][/\ last'.op \in {"create_entity", "create"} =>
             /\ Created # {}
             /\ \A e \in Created :
                   /\ ~MaskedStorage_contains(world.components', e.index)
                   /\ MaskedStorage_get(world.components', e.index) = {None}
       /\ world.components.mask \subseteq Allocator_live_bitset(world.allocator)
       /\ world.components'.mask \subseteq Allocator_live_bitset(world.allocator')]_vars

\* create_entity has just returned the second entity of an index at which
\* the storage has held a component, and the index has none now.
C40_Witness ==
    /\ last.op = "create_entity"
    /\ Allocator_is_alive(world.allocator, Entity_new(0, 2))
    /\ Len(world.components.storage.storage.cells) = 1
    /\ ~MaskedStorage_contains(world.components, 0)

====
